---------------------------- MODULE Spec2Model ----------------------------
(***************************************************************************)
(* Network Rail integration: the Train Describer berth/platform state      *)
(* machine (td_parser.py) and the hub's message classification, rate       *)
(* limiting, batching and event-loop handoff (hub.py).                     *)
(*                                                                         *)
(* Python values are represented as follows.  A string is a string; the    *)
(* value None in a string position is the string "None" (which is also     *)
(* what an f-string renders it as); None in a dict position is the record  *)
(* NoneDict.  A dict is a function whose DOMAIN is its key set; a list or  *)
(* deque is a sequence.  time.monotonic() is an integer number of ticks,   *)
(* TicksPerSecond ticks to the second.                                     *)
(***************************************************************************)
EXTENDS Integers, Sequences, FiniteSets, TLC

VARIABLES
    \* BerthState (td_parser.py), the hub's HubState.berth_state
    berths,               \* _berths: berth key -> {description, timestamp}
    event_history,        \* _event_history: deque(maxlen=_event_history_size)
    event_history_size,   \* _event_history_size
    platform_state,       \* _platform_state: platform id -> record
    berth_to_platform,    \* _berth_to_platform: berth key -> platform id
    \* HubState (hub.py)
    connected,
    last_error,
    last_movement,
    last_movement_per_station,
    last_batch_count,
    last_seen_monotonic,
    last_td_message,
    td_message_count,
    td_batch,
    td_last_dispatch_time,
    td_message_rate_window,
    td_dropped_count,
    \* the environment of the hub
    options,              \* entry.options as _read_options returns them
    monotonic,            \* time.monotonic(), in ticks
    loop_calls,           \* callbacks queued by hass.loop.call_soon_threadsafe
    sent,                 \* async_dispatcher_send calls of the last callback run
    \* observation of the run
    calls,                \* calls made on the BerthState, oldest first
    td_log,               \* what _handle_td_message did with each event it
                          \* rate-limited, and each batch it dispatched
    received,             \* the frames on_message was called with, oldest first
    \* the worker thread of the hub and the caller of async_stop
    worker,
    \* the track section sensor (sensor.py), NoSection before it is set up
    section,
    \* the SmartDataManager (smart_data.py): _data, _graph, and for reading
    \* the last load and the result of the last query
    smart

berth_vars == <<berths, event_history, event_history_size, platform_state,
                berth_to_platform>>
loop_state_vars == <<connected, last_movement, last_movement_per_station,
                     last_batch_count, last_seen_monotonic, last_td_message,
                     td_message_count>>
listener_vars == <<td_batch, td_last_dispatch_time, td_message_rate_window,
                   td_dropped_count>>
vars == <<berths, event_history, event_history_size, platform_state,
          berth_to_platform, last_movement, last_movement_per_station,
          last_batch_count, last_seen_monotonic, last_td_message,
          td_message_count, td_batch, td_last_dispatch_time,
          td_message_rate_window, td_dropped_count, options, monotonic,
          loop_calls, sent, calls, td_log, received, connected, last_error,
          worker, section, smart>>

\* what neither the BerthState nor the listener nor the event loop writes
ext_vars == <<last_error, worker>>

\* the consumers of the hub's signals and of the reference data
consumer_vars == <<section, smart>>

-----------------------------------------------------------------------------
(* Bounds of the model *)

\* most calls made directly on a BerthState in one behaviour of SpecBerth
MaxCalls == 3

\* most frames the listener receives in one behaviour
MaxFrames == 2

\* the monotonic clock runs from 0 to MaxTime ticks
MaxTime == 2

\* the sleeps of the reconnect loop are counted up to MaxWaits
MaxWaits == 5

\* the longest berths_visited a tracked train is followed to
MaxVisited == 3

\* the worker thread waits while the event loop's queue holds MaxQueue calls
MaxQueue == 2

\* the searches of the reference data are asked for 1 to MaxHops hops
MaxHops == 3

-----------------------------------------------------------------------------
(* Python values *)

None == "None"
NoneDict == [none |-> TRUE]
EmptyDict == <<>>

\* truth value of a string-or-None: None and "" are falsy
Truthy(s) == s # None /\ s # ""

\* d.get(k, default)
Get(d, k, default) == IF k \in DOMAIN d THEN d[k] ELSE default

\* d[k] = v on a dict
Put(d, k, v) == [x \in DOMAIN d \cup {k} |-> IF x = k THEN v ELSE d[x]]

\* d.pop(k, None)
Pop(d, k) == [x \in DOMAIN d \ {k} |-> d[x]]

\* d.update(e): the keys of e win
Update(d, e) == [x \in DOMAIN d \cup DOMAIN e |-> IF x \in DOMAIN e THEN e[x] ELSE d[x]]

\* s[-n:] for n >= 1
LastN(s, n) == IF Len(s) <= n THEN s ELSE SubSeq(s, Len(s) - n + 1, Len(s))

Min(a, b) == IF a <= b THEN a ELSE b
Max(a, b) == IF a >= b THEN a ELSE b

-----------------------------------------------------------------------------
(* td_parser.py: message types *)

TD_MSG_CA == "CA"
TD_MSG_CB == "CB"
TD_MSG_CC == "CC"
TD_MSG_CT == "CT"
TD_MSG_SF == "SF"
TD_MSG_SG == "SG"
TD_MSG_SH == "SH"
TD_MESSAGE_TYPES == {TD_MSG_CA, TD_MSG_CB, TD_MSG_CC, TD_MSG_CT,
                     TD_MSG_SF, TD_MSG_SG, TD_MSG_SH}

-----------------------------------------------------------------------------
(* JSON values as json.loads returns them.  A message object keeps its     *)
(* entries in order (Python dicts iterate in insertion order); the dict    *)
(* under a key is a function from field name to string.                    *)

JObject(entries) == [t |-> "dict", e |-> entries]     \* {k1: v1, k2: v2, ...}
JDict(fields) == [t |-> "dict", v |-> fields]         \* a nested dict
JString(s) == [t |-> "str", s |-> s]                  \* any non-dict, non-list value
JList(items) == [t |-> "list", l |-> items]

IsDict(x) == x.t = "dict"
IsList(x) == x.t = "list"

\* key.endswith(suffix)
EndsWith(s, suffix) ==
    /\ Len(s) >= Len(suffix)
    /\ SubSeq(s, Len(s) - Len(suffix) + 1, Len(s)) = suffix

\* s.startswith(prefix)
StartsWith(s, prefix) ==
    /\ Len(s) >= Len(prefix)
    /\ SubSeq(s, 1, Len(prefix)) = prefix

\* the fields parse_td_message adds for each message type
TdSpecificFields(msg_type, content) ==
    CASE msg_type = TD_MSG_CA ->
            [from_berth |-> Get(content, "from", None),
             to_berth |-> Get(content, "to", None),
             description |-> Get(content, "descr", None)]
      [] msg_type = TD_MSG_CB ->
            [from_berth |-> Get(content, "from", None),
             description |-> Get(content, "descr", None)]
      [] msg_type = TD_MSG_CC ->
            [to_berth |-> Get(content, "to", None),
             description |-> Get(content, "descr", None)]
      [] msg_type = TD_MSG_CT ->
            [report_time |-> Get(content, "report_time", None)]
      [] msg_type \in {TD_MSG_SF, TD_MSG_SG, TD_MSG_SH} ->
            [address |-> Get(content, "address", None),
             data |-> Get(content, "data", None)]

\* the parsed record built from the content of a recognised *_MSG key
TdParsed(content) ==
    LET msg_type == Get(content, "msg_type", None)
        common == [msg_type |-> msg_type,
                   time |-> Get(content, "time", None),
                   area_id |-> Get(content, "area_id", None)]
    IN  Update(Update(common, TdSpecificFields(msg_type, content)),
               [raw |-> content])

\* whether entry i of the message is a *_MSG key holding a dict of a known type
TdEntryValid(entry) ==
    /\ EndsWith(entry.k, "_MSG")
    /\ IsDict(entry.v)
    /\ Get(entry.v.v, "msg_type", None) \in TD_MESSAGE_TYPES

\* parse_td_message: the first valid entry in iteration order, or None
parse_td_message(message) ==
    IF ~IsDict(message) THEN NoneDict
    ELSE LET valid == {i \in 1..Len(message.e) : TdEntryValid(message.e[i])}
         IN  IF valid = {} THEN NoneDict
             ELSE LET first == CHOOSE i \in valid : \A j \in valid : i <= j
                  IN  TdParsed(message.e[first].v.v)

\* the filters with the area test left out
apply_td_filters_NoAreaTest(parsed_message, area_filter, message_types) ==
    message_types # {} => Get(parsed_message, "msg_type", "") \in message_types

\* apply_td_filters(parsed, area_filter, message_types); a filter of None or
\* of no elements is falsy and lets everything through
apply_td_filters(parsed_message, area_filter, message_types) ==
    /\ (area_filter # {} => Get(parsed_message, "area_id", "") \in area_filter)
    /\ (message_types # {} => Get(parsed_message, "msg_type", "") \in message_types)

-----------------------------------------------------------------------------
(* td_parser.py: class BerthState, as operators on the record of its fields *)

MIN_HISTORY_SIZE == 1
MAX_HISTORY_SIZE == 50

\* BerthState._validate_history_size
validate_history_size(size) == Max(MIN_HISTORY_SIZE, Min(MAX_HISTORY_SIZE, size))

\* BerthState.__init__
BerthState_init(event_history_size_arg) ==
    [berths |-> EmptyDict,
     event_history_size |-> validate_history_size(event_history_size_arg),
     event_history |-> <<>>,
     platform_state |-> EmptyDict,
     berth_to_platform |-> EmptyDict]

\* f"{area_id}:{berth_id}"
BerthKey(area_id, berth_id) == area_id \o ":" \o berth_id

\* a deque that, once full, refuses the new element instead of dropping the oldest
DequeAppend_KeepsOldest(dq, maxlen, x) ==
    IF Len(dq) >= maxlen THEN dq ELSE Append(dq, x)

\* deque(maxlen=maxlen).append(x): a full deque drops its oldest element
DequeAppend(dq, maxlen, x) ==
    IF maxlen = 0 THEN dq
    ELSE IF Len(dq) >= maxlen THEN Append(Tail(dq), x)
    ELSE Append(dq, x)

\* BerthState.set_berth_to_platform_mapping
set_berth_to_platform_mapping(bs, mapping) ==
    [bs EXCEPT !.berth_to_platform = mapping]

\* a resize that keeps the oldest entries (old_events[:new_size])
set_event_history_size_KeepsOldest(bs, size) ==
    LET new_size == Max(MIN_HISTORY_SIZE, Min(MAX_HISTORY_SIZE, size))
    IN  IF new_size # bs.event_history_size
        THEN [bs EXCEPT !.event_history_size = new_size,
                        !.event_history =
                            SubSeq(bs.event_history, 1,
                                   Min(new_size, Len(bs.event_history)))]
        ELSE bs

\* BerthState.set_event_history_size
set_event_history_size(bs, size) ==
    LET new_size == validate_history_size(size)
    IN  IF new_size # bs.event_history_size
        THEN [bs EXCEPT !.event_history_size = new_size,
                        !.event_history = LastN(bs.event_history, new_size)]
        ELSE bs

\* BerthState._update_platform_idle, on the platform map
update_platform_idle(ps, platform_id, timestamp) ==
    IF Truthy(platform_id)
    THEN Put(ps, platform_id,
             [platform_id |-> platform_id,
              current_train |-> None,
              current_event |-> None,
              last_updated |-> timestamp,
              status |-> "idle"])
    ELSE ps

\* _update_platform_active that keeps the train of a record it finds
update_platform_active_KeepsTrain(ps, platform_id, train_id, event_type, timestamp) ==
    IF Truthy(platform_id)
    THEN Put(ps, platform_id,
             [platform_id |-> platform_id,
              current_train |-> IF platform_id \in DOMAIN ps /\ ps[platform_id].status = "active"
                                THEN ps[platform_id].current_train ELSE train_id,
              current_event |-> event_type,
              last_updated |-> timestamp,
              status |-> "active"])
    ELSE ps

\* BerthState._update_platform_active, on the platform map
update_platform_active(ps, platform_id, train_id, event_type, timestamp) ==
    IF Truthy(platform_id)
    THEN Put(ps, platform_id,
             [platform_id |-> platform_id,
              current_train |-> train_id,
              current_event |-> event_type,
              last_updated |-> timestamp,
              status |-> "active"])
    ELSE ps

\* the record a berth holds for its occupant
Occupant(description, time) == [description |-> description, timestamp |-> time]

\* a step that occupies the source berth and clears the destination
update_CA_Swapped(bs, parsed_message, event_record) ==
    LET area_id == Get(parsed_message, "area_id", None)
        time == Get(parsed_message, "time", None)
        from_berth == BerthKey(area_id, Get(parsed_message, "from_berth", None))
        to_berth == BerthKey(area_id, Get(parsed_message, "to_berth", None))
        description == Get(parsed_message, "description", "")
    IN  [state |-> [bs EXCEPT
                      !.berths = Put(Pop(bs.berths, to_berth), from_berth,
                                     Occupant(description, time))],
         event_record |-> Update(event_record,
                                 [event_type |-> "step",
                                  from_berth |-> Get(parsed_message, "from_berth", None),
                                  to_berth |-> Get(parsed_message, "to_berth", None),
                                  train_id |-> description])]

\* BerthState.update, branch msg_type == CA (berth step)
update_CA(bs, parsed_message, event_record) ==
    LET area_id == Get(parsed_message, "area_id", None)
        time == Get(parsed_message, "time", None)
        from_berth == BerthKey(area_id, Get(parsed_message, "from_berth", None))
        to_berth == BerthKey(area_id, Get(parsed_message, "to_berth", None))
        description == Get(parsed_message, "description", "")
        from_platform == Get(bs.berth_to_platform, from_berth, None)
        to_platform == Get(bs.berth_to_platform, to_berth, None)
        rec1 == Update(event_record,
                       [event_type |-> "step",
                        from_berth |-> Get(parsed_message, "from_berth", None),
                        to_berth |-> Get(parsed_message, "to_berth", None),
                        train_id |-> description])
        rec2 == IF Truthy(from_platform)
                THEN Update(rec1, [from_platform |-> from_platform]) ELSE rec1
        rec3 == IF Truthy(to_platform)
                THEN Update(rec2, [to_platform |-> to_platform]) ELSE rec2
        cleared == Pop(bs.berths, from_berth)
        idle == update_platform_idle(bs.platform_state, from_platform, time)
    IN  [state |-> [bs EXCEPT
                      !.berths = Put(cleared, to_berth, Occupant(description, time)),
                      !.platform_state =
                          update_platform_active(idle, to_platform, description,
                                                 "arrive", time)],
         event_record |-> rec3]

\* a cancel that clears the berth only when it holds the cancelled train
update_CB_IfSameTrain(bs, parsed_message, event_record) ==
    LET area_id == Get(parsed_message, "area_id", None)
        from_berth == BerthKey(area_id, Get(parsed_message, "from_berth", None))
        description == Get(parsed_message, "description", "")
        same == /\ from_berth \in DOMAIN bs.berths
                /\ bs.berths[from_berth].description = description
    IN  [state |-> [bs EXCEPT
                      !.berths = IF same THEN Pop(bs.berths, from_berth) ELSE bs.berths],
         event_record |-> Update(event_record,
                                 [event_type |-> "cancel",
                                  from_berth |-> Get(parsed_message, "from_berth", None),
                                  train_id |-> description])]

\* BerthState.update, branch msg_type == CB (berth cancel)
update_CB(bs, parsed_message, event_record) ==
    LET area_id == Get(parsed_message, "area_id", None)
        time == Get(parsed_message, "time", None)
        from_berth == BerthKey(area_id, Get(parsed_message, "from_berth", None))
        description == Get(parsed_message, "description", "")
        from_platform == Get(bs.berth_to_platform, from_berth, None)
        rec1 == Update(event_record,
                       [event_type |-> "cancel",
                        from_berth |-> Get(parsed_message, "from_berth", None),
                        train_id |-> description])
        rec2 == IF Truthy(from_platform)
                THEN Update(rec1, [platform |-> from_platform]) ELSE rec1
    IN  [state |-> [bs EXCEPT
                      !.berths = Pop(bs.berths, from_berth),
                      !.platform_state =
                          update_platform_idle(bs.platform_state, from_platform, time)],
         event_record |-> rec2]

\* BerthState.update, branch msg_type == CC (berth interpose)
update_CC(bs, parsed_message, event_record) ==
    LET area_id == Get(parsed_message, "area_id", None)
        time == Get(parsed_message, "time", None)
        to_berth == BerthKey(area_id, Get(parsed_message, "to_berth", None))
        description == Get(parsed_message, "description", "")
        to_platform == Get(bs.berth_to_platform, to_berth, None)
        rec1 == Update(event_record,
                       [event_type |-> "interpose",
                        to_berth |-> Get(parsed_message, "to_berth", None),
                        train_id |-> description])
        rec2 == IF Truthy(to_platform)
                THEN Update(rec1, [platform |-> to_platform]) ELSE rec1
    IN  [state |-> [bs EXCEPT
                      !.berths = Put(bs.berths, to_berth, Occupant(description, time)),
                      !.platform_state =
                          update_platform_active(bs.platform_state, to_platform,
                                                 description, "interpose", time)],
         event_record |-> rec2]

\* whether BerthState.update appends the event record to the history
IsBerthOperation(msg_type) == msg_type \in {TD_MSG_CA, TD_MSG_CB, TD_MSG_CC}

\* an update that appends its event record whatever the message type
update_LogsEveryType(bs, parsed_message) ==
    LET msg_type == Get(parsed_message, "msg_type", None)
        event_record == [msg_type |-> msg_type,
                         area_id |-> Get(parsed_message, "area_id", None),
                         timestamp |-> Get(parsed_message, "time", None)]
        branch == CASE msg_type = TD_MSG_CA -> update_CA(bs, parsed_message, event_record)
                    [] msg_type = TD_MSG_CB -> update_CB(bs, parsed_message, event_record)
                    [] msg_type = TD_MSG_CC -> update_CC(bs, parsed_message, event_record)
                    [] OTHER -> [state |-> bs, event_record |-> event_record]
    IN  [branch.state EXCEPT
            !.event_history = DequeAppend(branch.state.event_history,
                                          branch.state.event_history_size,
                                          branch.event_record)]

\* BerthState.update
update(bs, parsed_message) ==
    LET msg_type == Get(parsed_message, "msg_type", None)
        event_record == [msg_type |-> msg_type,
                         area_id |-> Get(parsed_message, "area_id", None),
                         timestamp |-> Get(parsed_message, "time", None)]
        branch == CASE msg_type = TD_MSG_CA -> update_CA(bs, parsed_message, event_record)
                    [] msg_type = TD_MSG_CB -> update_CB(bs, parsed_message, event_record)
                    [] msg_type = TD_MSG_CC -> update_CC(bs, parsed_message, event_record)
                    [] OTHER -> [state |-> bs, event_record |-> event_record]
    IN  IF IsBerthOperation(msg_type)
        THEN [branch.state EXCEPT
                !.event_history = DequeAppend(branch.state.event_history,
                                              branch.state.event_history_size,
                                              branch.event_record)]
        ELSE branch.state

\* BerthState.get_berth: the record the map holds, or None
get_berth(bs, area_id, berth_id) == Get(bs.berths, BerthKey(area_id, berth_id), NoneDict)

\* BerthState.get_all_berths
get_all_berths(bs) == bs.berths

\* str.replace(old, "") for a non-empty old: every occurrence is removed
RECURSIVE StrRemove(_, _)
StrRemove(s, old) ==
    IF Len(s) < Len(old) \/ old = "" THEN s
    ELSE IF StartsWith(s, old) THEN StrRemove(SubSeq(s, Len(old) + 1, Len(s)), old)
    ELSE SubSeq(s, 1, 1) \o StrRemove(SubSeq(s, 2, Len(s)), old)

\* BerthState.get_area_berths (two keys that shorten to the same berth id do
\* not occur with the berth ids of this model)
get_area_berths(bs, area_id) ==
    LET prefix == area_id \o ":"
        keys == {k \in DOMAIN bs.berths : StartsWith(k, prefix)}
    IN  [b \in {StrRemove(k, prefix) : k \in keys} |->
            bs.berths[CHOOSE k \in keys : StrRemove(k, prefix) = b]]

\* BerthState.get_platform_state
get_platform_state(bs, platform_id) == Get(bs.platform_state, platform_id, NoneDict)

\* BerthState.get_all_platform_states
get_all_platform_states(bs) == bs.platform_state

\* BerthState.get_event_history
get_event_history(bs) == bs.event_history

\* BerthState.get_event_history_size
get_event_history_size(bs) == bs.event_history_size

-----------------------------------------------------------------------------
(* The inputs of the BerthState: Train Describer messages as they arrive   *)

MsgTime == "1600000000000"

CA_MSG(area, from, to, descr) ==
    JObject(<<[k |-> "CA_MSG",
               v |-> JDict([time |-> MsgTime, area_id |-> area, msg_type |-> "CA",
                            from |-> from, to |-> to, descr |-> descr])]>>)
CB_MSG(area, from, descr) ==
    JObject(<<[k |-> "CB_MSG",
               v |-> JDict([time |-> MsgTime, area_id |-> area, msg_type |-> "CB",
                            from |-> from, descr |-> descr])]>>)
CC_MSG(area, to, descr) ==
    JObject(<<[k |-> "CC_MSG",
               v |-> JDict([time |-> MsgTime, area_id |-> area, msg_type |-> "CC",
                            to |-> to, descr |-> descr])]>>)
CT_MSG(area) ==
    JObject(<<[k |-> "CT_MSG",
               v |-> JDict([time |-> MsgTime, area_id |-> area, msg_type |-> "CT",
                            report_time |-> "1200"])]>>)
S_MSG(type, area) ==
    JObject(<<[k |-> type \o "_MSG",
               v |-> JDict([time |-> MsgTime, area_id |-> area, msg_type |-> type,
                            address |-> "16", data |-> "43"])]>>)

\* the messages a BerthState is driven with in SpecBerth: every step between
\* the two SK berths (a step onto its own berth included), a step in another
\* area, and cancels and interposes on the same berth keys
BerthMessages ==
    {CA_MSG("SK", f, t, "1A23") : f \in {"101", "102"}, t \in {"101", "102"}}
    \cup {CA_MSG("G1", "101", "102", "1A23")}
    \cup {CB_MSG("SK", f, "1A23") : f \in {"101", "102"}}
    \cup {CB_MSG("G1", "101", "1A23")}
    \cup {CC_MSG("SK", t, "2J01") : t \in {"101", "102"}}
    \cup {CC_MSG("G1", "101", "2J01")}
    \cup {CT_MSG("SK"), S_MSG("SF", "SK"), S_MSG("SH", "G1")}

\* berth-to-platform tables as sensor.py builds them from the SMART data:
\* both SK berths lie on platform 1, G1:101 on platform 2A
PlatformMappings ==
    {EmptyDict,
     [k \in {"SK:101", "SK:102", "G1:101"} |->
         IF k = "G1:101" THEN "2A" ELSE "1"]}

\* sizes a BerthState is constructed with and asked to change to
ConstructorSizes == {1, 2}
HistorySizes == {0, 2, 51}

-----------------------------------------------------------------------------
(* The state *)

BS == [berths |-> berths,
       event_history_size |-> event_history_size,
       event_history |-> event_history,
       platform_state |-> platform_state,
       berth_to_platform |-> berth_to_platform]

\* SmartDataManager.__init__: no record, no graph, never updated
SmartDataManager_init ==
    [data |-> <<>>,
     graph |-> EmptyDict,
     last_updated |-> None,
     last |-> NoneDict,
     adjacent |-> NoneDict,
     route |-> NoneDict,
     answers |-> NoneDict]

\* no track section sensor has been set up
NoSection == [none |-> TRUE]

\* the delays of the reconnect loop of _thread_main, and the join of
\* async_stop, in seconds
RECONNECT_DELAY_BASE == 5
RECONNECT_DELAY_CAP == 60
JOIN_TIMEOUT == 5

\* the worker thread as async_start leaves it, at the top of its loop:
\*   pc               where _thread_main is: "top" (the while test), "connecting"
\*                    (in conn.connect), "connected" (the polling loop),
\*                    "sleeping" (time.sleep(reconnect_delay)), "exited"
\*   reconnect_delay  the local of _thread_main
\*   conn             the connection: "none", "new", "connected", "closed" (by
\*                    the broker or the network), "disconnected" (by the worker)
\*   stop_evt         _stop_evt
\*   stop             where async_stop is: "idle", "joining", "returned"
\*   sleeping_for     the argument of the time.sleep in progress, 0 if none
\*   after            what the sleep follows: "failed" (connect raised),
\*                    "ended" (the connection was lost), "none"
\*   waits            the sleeps finished so far, counted up to MaxWaits
\*   joined           whether the join of async_stop saw the thread end
WorkerStarted ==
    [pc |-> "top", reconnect_delay |-> RECONNECT_DELAY_BASE, conn |-> "none",
     stop_evt |-> FALSE, stop |-> "idle", sleeping_for |-> 0, after |-> "none",
     waits |-> 0, joined |-> FALSE, subscriptions |-> <<>>, slept |-> "none"]

\* HubState fields other than berth_state, with the dataclass defaults
HubStateDefaults ==
    /\ connected = FALSE
    /\ last_error = None
    /\ last_movement = NoneDict
    /\ last_movement_per_station = EmptyDict
    /\ last_batch_count = 0
    /\ last_seen_monotonic = NoneDict
    /\ last_td_message = NoneDict
    /\ td_message_count = 0
    /\ td_batch = <<>>
    /\ td_last_dispatch_time = 0
    /\ td_message_rate_window = <<>>
    /\ td_dropped_count = 0

DEFAULT_TD_EVENT_HISTORY_SIZE == 10
DEFAULT_TD_UPDATE_INTERVAL == 3
DEFAULT_TD_MAX_BATCH_SIZE == 50
DEFAULT_TD_MAX_MESSAGES_PER_SECOND == 20

\* _read_options() of an entry whose options are all unset
DefaultOptions ==
    [stanox_filter |-> "",
     stations |-> <<>>,
     toc_filter |-> "",
     event_types |-> {},
     enable_td |-> FALSE,
     td_areas |-> {},
     td_event_history_size |-> DEFAULT_TD_EVENT_HISTORY_SIZE,
     td_update_interval |-> DEFAULT_TD_UPDATE_INTERVAL,
     td_max_batch_size |-> DEFAULT_TD_MAX_BATCH_SIZE,
     td_max_messages_per_second |-> DEFAULT_TD_MAX_MESSAGES_PER_SECOND,
     enable_vstp |-> FALSE]

-----------------------------------------------------------------------------
(* SpecBerth: a BerthState on its own, driven through its public methods   *)

\* BerthState(event_history_size=n)
InitBerth ==
    /\ \E n \in ConstructorSizes :
          LET bs == BerthState_init(n)
          IN  /\ berths = bs.berths
              /\ event_history_size = bs.event_history_size
              /\ event_history = bs.event_history
              /\ platform_state = bs.platform_state
              /\ berth_to_platform = bs.berth_to_platform
    /\ HubStateDefaults
    /\ options = DefaultOptions
    /\ monotonic = 0
    /\ loop_calls = <<>>
    /\ sent = <<>>
    /\ calls = <<>>
    /\ td_log = <<>>
    /\ received = <<>>
    /\ worker = WorkerStarted
    /\ section = NoSection
    /\ smart = SmartDataManager_init

SetBS(bs) ==
    /\ berths' = bs.berths
    /\ event_history_size' = bs.event_history_size
    /\ event_history' = bs.event_history
    /\ platform_state' = bs.platform_state
    /\ berth_to_platform' = bs.berth_to_platform

hub_vars == <<last_movement, last_movement_per_station, last_batch_count,
              last_seen_monotonic, last_td_message, td_message_count, td_batch,
              td_last_dispatch_time, td_message_rate_window, td_dropped_count,
              options, monotonic, loop_calls, sent, td_log, received,
              connected, last_error, worker, section, smart>>

\* berth_state.update(parse_td_message(m))
BerthUpdate(m) ==
    /\ Len(calls) < MaxCalls
    /\ LET parsed == parse_td_message(m)
       IN  /\ SetBS(update(BS, parsed))
           /\ calls' = Append(calls, [op |-> "update", msg |-> parsed])
    /\ UNCHANGED hub_vars

\* berth_state.set_event_history_size(n)
BerthSetEventHistorySize(n) ==
    /\ Len(calls) < MaxCalls
    /\ SetBS(set_event_history_size(BS, n))
    /\ calls' = Append(calls, [op |-> "set_event_history_size", size |-> n])
    /\ UNCHANGED hub_vars

\* berth_state.set_berth_to_platform_mapping(mapping)
BerthSetMapping(mapping) ==
    /\ Len(calls) < MaxCalls
    /\ SetBS(set_berth_to_platform_mapping(BS, mapping))
    /\ calls' = Append(calls, [op |-> "set_berth_to_platform_mapping",
                               mapping |-> mapping])
    /\ UNCHANGED hub_vars

NextBerth ==
    \/ \E m \in BerthMessages : BerthUpdate(m)
    \/ \E n \in HistorySizes : BerthSetEventHistorySize(n)
    \/ \E mapping \in PlatformMappings : BerthSetMapping(mapping)

SpecBerth == InitBerth /\ [][NextBerth]_vars

-----------------------------------------------------------------------------
(* SpecBerthCaller: SpecBerth with a caller that assigns into the values   *)
(* the queries return.  Python returns references: what an assignment      *)
(* through a returned value reaches depends on what the query copied.      *)

Queries == {"get_berth", "get_all_berths", "get_area_berths",
            "get_platform_state", "get_all_platform_states", "get_event_history"}

\* What the value a query returns is, relative to the BerthState's own objects:
\*   "stored"       the stored record itself        (return self._berths.get(key))
\*   "new_of_stored" a new dict or list whose elements are the stored records
\*                                                  (.copy(), list(...), a comprehension)
ReturnedObject(query) ==
    CASE query = "get_berth" -> "stored"
      [] query = "get_all_berths" -> "new_of_stored"
      [] query = "get_area_berths" -> "new_of_stored"
      [] query = "get_platform_state" -> "stored"
      [] query = "get_all_platform_states" -> "new_of_stored"
      [] query = "get_event_history" -> "new_of_stored"

\* the stored collection whose records a query hands out
CollectionOf(query) ==
    CASE query \in {"get_berth", "get_all_berths", "get_area_berths"} -> "berths"
      [] query \in {"get_platform_state", "get_all_platform_states"} -> "platform_state"
      [] query = "get_event_history" -> "event_history"

\* the BerthState after record[field] = value on the stored record at `at`
AssignStored(bs, collection, at, field, value) ==
    CASE collection = "berths" ->
            [bs EXCEPT !.berths = Put(bs.berths, at, Update(bs.berths[at], field :> value))]
      [] collection = "platform_state" ->
            [bs EXCEPT !.platform_state =
                Put(bs.platform_state, at, Update(bs.platform_state[at], field :> value))]
      [] collection = "event_history" ->
            [bs EXCEPT !.event_history =
                [bs.event_history EXCEPT ![at] = Update(bs.event_history[at], field :> value)]]

\* The BerthState after the caller's assignment through the value the query
\* returned.  level = "record": the caller assigns a field of the occupant,
\* platform or event record at `at`, which every query hands out as stored;
\* level = "container": the caller changes the dict or list that a query made
\* anew (adds, removes or replaces an element), which the BerthState never sees.
AssignThroughResult(bs, query, level, at, field, value) ==
    IF level = "record"
    THEN AssignStored(bs, CollectionOf(query), at, field, value)
    ELSE bs

\* the places of a stored collection
PlacesOf(collection) ==
    CASE collection = "berths" -> DOMAIN berths
      [] collection = "platform_state" -> DOMAIN platform_state
      [] collection = "event_history" -> DOMAIN event_history

\* the levels at which the value a query returns can be assigned into
LevelsOf(query) ==
    IF ReturnedObject(query) = "stored" THEN {"record"} ELSE {"container", "record"}

\* the field the caller overwrites, and the value it writes
CallerField(collection) ==
    CASE collection = "berths" -> "description"
      [] collection = "platform_state" -> "current_train"
      [] collection = "event_history" -> "train_id"
CallerValue == "0Z99"

\* a caller on the event loop calls a query and assigns into what it got
CallerAssigns(query, level, at) ==
    /\ Len(calls) < MaxCalls
    /\ at \in PlacesOf(CollectionOf(query))
    /\ SetBS(AssignThroughResult(BS, query, level, at,
                                 CallerField(CollectionOf(query)), CallerValue))
    /\ calls' = Append(calls, [op |-> "assign_through_result", query |-> query,
                               level |-> level, at |-> at])
    /\ UNCHANGED hub_vars

NextBerthCaller ==
    \/ NextBerth
    \/ \E query \in Queries : \E level \in LevelsOf(query) :
          \E at \in PlacesOf(CollectionOf(query)) : CallerAssigns(query, level, at)

SpecBerthCaller == InitBerth /\ [][NextBerthCaller]_vars

-----------------------------------------------------------------------------
(* hub.py: the listener's message handling, as operators on the record of  *)
(* what the receive callback reads and writes:                             *)
(*   td_batch, td_last_dispatch_time, td_message_rate_window,              *)
(*   td_dropped_count   the HubState fields the callback writes itself     *)
(*   loop_calls         the callbacks handed to the event loop             *)
(*   td_log             what was accepted, dropped and dispatched          *)

DOMAIN_NAME == "homeassistant_network_rail_uk"
DISPATCH_MOVEMENT == DOMAIN_NAME \o "_movement"
DISPATCH_CONNECTED == DOMAIN_NAME \o "_connected"
DISPATCH_TD == DOMAIN_NAME \o "_td"
DISPATCH_VSTP == DOMAIN_NAME \o "_vstp"

\* ticks of the monotonic clock in one second
TicksPerSecond == 2

\* message.get(key): the value under a key of a message object, or None
ObjectHas(message, key) == \E i \in 1..Len(message.e) : message.e[i].k = key
ObjectGet(message, key) ==
    IF ObjectHas(message, key)
    THEN message.e[CHOOSE i \in 1..Len(message.e) : message.e[i].k = key].v
    ELSE JString(None)

\* hass.loop.call_soon_threadsafe(callback, ...)
CallSoon(st, call) == [st EXCEPT !.loop_calls = Append(st.loop_calls, call)]

\* _Listener._mark_seen
mark_seen(st, batch_count) ==
    CallSoon(st, [fn |-> "_update_seen", batch_count |-> batch_count])

\* _Listener._publish_td_batch
publish_td_batch(st, batch) ==
    CallSoon(st, [fn |-> "_update_td_batch", batch |-> batch])

\* _Listener._publish_last_movement
publish_last_movement(st, movement, kept, station_movements) ==
    CallSoon(st, [fn |-> "_update_movement", movement |-> movement, kept |-> kept,
                  station_movements |-> station_movements])

\* _Listener._publish_vstp_message
publish_vstp_message(st, message) ==
    CallSoon(st, [fn |-> "_update_vstp_message", message |-> message])

\* _Listener._handle_vstp_message.  vstp_outcome is what the VSTP manager
\* registered in hass.data does: "published" (it processed the message),
\* "discarded" (there is none, or process_vstp_message raised)
handle_vstp_message(st, message, vstp_outcome) ==
    IF ~ObjectHas(message, "JsonScheduleV1")
    THEN [handled |-> FALSE, st |-> st]
    ELSE [handled |-> TRUE,
          st |-> IF vstp_outcome = "published"
                 THEN publish_vstp_message(st, message) ELSE st]

\* the early area check of _handle_td_message: some *_MSG key holds a dict
\* whose area_id is in td_areas
HasAreaMatch(message, td_areas) ==
    \E i \in 1..Len(message.e) :
        /\ EndsWith(message.e[i].k, "_MSG")
        /\ IsDict(message.e[i].v)
        /\ Get(message.e[i].v.v, "area_id", "") \in td_areas

\* the window after its timestamps older than one second are removed
RECURSIVE CleanWindow(_, _)
CleanWindow(window, now) ==
    IF window = <<>> THEN <<>>
    ELSE IF now - Head(window) < TicksPerSecond
         THEN <<Head(window)>> \o CleanWindow(Tail(window), now)
         ELSE CleanWindow(Tail(window), now)

\* the rate check with > in place of >=
OverRateLimit_OneMore(window, max_msg_per_sec) == Len(window) > max_msg_per_sec

\* the rate check of _handle_td_message
OverRateLimit(window, max_msg_per_sec) == Len(window) >= max_msg_per_sec

\* the dispatch condition with > in place of >= on the batch length
ShouldDispatch_OneMore(batch, max_batch_size, time_since_last, update_interval) ==
    \/ Len(batch) > max_batch_size
    \/ time_since_last >= update_interval * TicksPerSecond

\* the dispatch condition of _handle_td_message
ShouldDispatch(batch, max_batch_size, time_since_last, update_interval) ==
    \/ Len(batch) >= max_batch_size
    \/ time_since_last >= update_interval * TicksPerSecond

\* an entry of td_log: the event was dropped by the rate limiter, or
\* accepted into the batch, or the batch was handed to _publish_td_batch;
\* since is now - td_last_dispatch_time as the handler computed it, batch
\* what was dispatched, pending the value of td_batch it left behind
LogEntry(now, verdict, parsed, time_since_last, batch, pending) ==
    [at |-> now, verdict |-> verdict, ev |-> parsed, since |-> time_since_last,
     batch |-> batch, pending |-> pending]

\* the rate limiter's drop with the time of the dropped event added to the
\* window
RateLimitDrop_EntersWindow(st, window, parsed, now) ==
    [st EXCEPT !.td_message_rate_window = Append(window, now),
               !.td_dropped_count = @ + 1,
               !.td_log = Append(@, LogEntry(now, "dropped", parsed,
                                             now - st.td_last_dispatch_time, <<>>,
                                             st.td_batch))]

\* the rate limiter's drop with the counter left as it is
RateLimitDrop_NotCounted(st, window, parsed, now) ==
    [st EXCEPT !.td_message_rate_window = window,
               !.td_log = Append(@, LogEntry(now, "dropped", parsed,
                                             now - st.td_last_dispatch_time, <<>>,
                                             st.td_batch))]

\* _handle_td_message over the rate limit: the window is the cleaned one, the
\* drop is counted, and the handler returns
RateLimitDrop(st, window, parsed, now) ==
    [st EXCEPT !.td_message_rate_window = window,
               !.td_dropped_count = @ + 1,
               !.td_log = Append(@, LogEntry(now, "dropped", parsed,
                                             now - st.td_last_dispatch_time, <<>>,
                                             st.td_batch))]

\* _handle_td_message from the rate limiter on: parsed passed the filters
RateLimitAndBatch(st, parsed, now, opts) ==
    LET window == CleanWindow(st.td_message_rate_window, now)
        time_since_last == now - st.td_last_dispatch_time
    IN  IF OverRateLimit(window, opts.td_max_messages_per_second)
        THEN RateLimitDrop(st, window, parsed, now)
        ELSE LET batch == Append(st.td_batch, parsed)
                 st1 == [st EXCEPT !.td_message_rate_window = Append(window, now),
                                   !.td_log = Append(@, LogEntry(now, "accepted", parsed,
                                                                 time_since_last, <<>>,
                                                                 batch))]
             IN  IF /\ ShouldDispatch(batch, opts.td_max_batch_size,
                                      time_since_last, opts.td_update_interval)
                    /\ batch # <<>>
                 THEN publish_td_batch(
                          [st1 EXCEPT !.td_batch = <<>>,
                                      !.td_last_dispatch_time = now,
                                      !.td_log = Append(@, LogEntry(now, "dispatched",
                                                                    NoneDict,
                                                                    time_since_last,
                                                                    batch, <<>>))],
                          batch)
                 ELSE [st1 EXCEPT !.td_batch = batch]

\* _Listener._handle_td_message
handle_td_message(st, message, now, opts) ==
    LET td_areas == opts.td_areas
        parsed == parse_td_message(message)
    IN  IF td_areas # {} /\ ~HasAreaMatch(message, td_areas)
        THEN [handled |-> TRUE, st |-> st]
        ELSE IF parsed = NoneDict
        THEN [handled |-> FALSE, st |-> st]
        ELSE IF ~apply_td_filters(parsed, td_areas, {})
        THEN [handled |-> TRUE, st |-> st]
        ELSE [handled |-> TRUE, st |-> RateLimitAndBatch(st, parsed, now, opts)]

\* str.strip(), for blanks
RECURSIVE StripLeft(_)
StripLeft(s) ==
    IF Len(s) > 0 /\ SubSeq(s, 1, 1) = " " THEN StripLeft(SubSeq(s, 2, Len(s))) ELSE s
RECURSIVE StripRight(_)
StripRight(s) ==
    IF Len(s) > 0 /\ SubSeq(s, Len(s), Len(s)) = " "
    THEN StripRight(SubSeq(s, 1, Len(s) - 1)) ELSE s
Strip(s) == StripRight(StripLeft(s))

\* the truth value of a JSON value: None, "" and {} are falsy
JTruthy(x) ==
    CASE x.t = "str" -> Truthy(x.s)
      [] x.t = "dict" -> IF "v" \in DOMAIN x THEN DOMAIN x.v # {} ELSE x.e # <<>>
      [] x.t = "list" -> x.l # <<>>

\* item.get(key) or {}: the dict under the key, {} for a missing or falsy
\* value; a truthy value that is no dict has no .get, and the lookup that
\* follows raises AttributeError
SectionRaises(item, key) ==
    LET x == ObjectGet(item, key) IN JTruthy(x) /\ ~IsDict(x)
SectionOf(item, key) ==
    LET x == ObjectGet(item, key) IN IF JTruthy(x) THEN x.v ELSE EmptyDict

\* the tracked set with the configured stations replacing the legacy filter
TrackedStanox_StationsReplace(opts) ==
    LET stations == {Strip(Get(opts.stations[i], "stanox", "")) :
                        i \in 1..Len(opts.stations)} \ {""}
    IN  IF stations # {} THEN stations
        ELSE IF Strip(opts.stanox_filter) # "" THEN {Strip(opts.stanox_filter)} ELSE {}

\* the set of station codes on_message tracks: the legacy single filter and
\* the configured stations, each stripped, the empty ones left out
TrackedStanox(opts) ==
    (IF Strip(opts.stanox_filter) # "" THEN {Strip(opts.stanox_filter)} ELSE {})
    \cup ({Strip(Get(opts.stations[i], "stanox", "")) : i \in 1..Len(opts.stations)}
          \ {""})

\* whether on_message looks at the item as a movement at all
IsMovementItem(item) ==
    /\ IsDict(item)
    /\ Get(SectionOf(item, "header"), "msg_type", None) = "0003"

\* the three filters of on_message on a movement body
MovementKept(mv, opts) ==
    LET tracked_stanox == TrackedStanox(opts)
        toc_filter == Strip(opts.toc_filter)
    IN  /\ (tracked_stanox # {} => Get(mv, "loc_stanox", "") \in tracked_stanox)
        /\ (toc_filter # "" => Get(mv, "toc_id", "") = toc_filter)
        /\ (opts.event_types # {} => Get(mv, "event_type", "") \in opts.event_types)

\* the assignment that leaves a key it finds as it is
OrderedPut_KeepsFirst(entries, key, value) ==
    IF \E i \in 1..Len(entries) : entries[i].k = key
    THEN entries
    ELSE Append(entries, [k |-> key, v |-> value])

\* station_movements[loc_stanox] = item on a dict kept as its entries in
\* insertion order
OrderedPut(entries, key, value) ==
    IF \E i \in 1..Len(entries) : entries[i].k = key
    THEN [i \in 1..Len(entries) |->
             IF entries[i].k = key THEN [k |-> key, v |-> value] ELSE entries[i]]
    ELSE Append(entries, [k |-> key, v |-> value])

\* the movement loop of on_message over the items from index i on
RECURSIVE MovementLoop(_, _, _, _)
MovementLoop(items, i, acc, opts) ==
    IF i > Len(items) THEN acc
    ELSE LET item == items[i]
         IN  IF ~IsDict(item) THEN MovementLoop(items, i + 1, acc, opts)
             ELSE IF SectionRaises(item, "header") THEN [acc EXCEPT !.raised = TRUE]
             ELSE IF ~IsMovementItem(item) THEN MovementLoop(items, i + 1, acc, opts)
             ELSE IF SectionRaises(item, "body") THEN [acc EXCEPT !.raised = TRUE]
             ELSE LET mv == SectionOf(item, "body")
                      loc_stanox == Get(mv, "loc_stanox", "")
                  IN  IF ~MovementKept(mv, opts)
                      THEN MovementLoop(items, i + 1, acc, opts)
                      ELSE MovementLoop(items, i + 1,
                               [acc EXCEPT
                                  !.kept = @ + 1,
                                  !.last = item,
                                  !.station_movements =
                                      IF loc_stanox # ""
                                      THEN OrderedPut(@, loc_stanox, item) ELSE @],
                               opts)

\* on_message from "options = _read_options()" on: the payload is a
\* non-empty list taken as a movement batch.  The loop has no try block: an
\* AttributeError raised in it leaves on_message before _mark_seen
ProcessMovements(st, payload, opts) ==
    LET acc == MovementLoop(payload.l, 1,
                            [last |-> NoneDict, kept |-> 0,
                             station_movements |-> <<>>, raised |-> FALSE],
                            opts)
        seen == mark_seen(st, Len(payload.l))
    IN  IF acc.raised THEN [st EXCEPT !.raised = TRUE]
        ELSE IF acc.last = NoneDict THEN seen
        ELSE publish_last_movement(seen, acc.last, acc.kept, acc.station_movements)

\* the test of the first item left out: no list is taken as a TD list
HasTdMsgKey_Never(item) == FALSE

\* any(key.endswith("_MSG") for key in first_item.keys())
HasTdMsgKey(item) == \E i \in 1..Len(item.e) : EndsWith(item.e[i].k, "_MSG")

\* the loop of on_message that hands each item of a list to _handle_td_message
RECURSIVE TdLoop(_, _, _, _, _)
TdLoop(items, i, acc, now, opts) ==
    IF i > Len(items) THEN acc
    ELSE IF ~IsDict(items[i]) THEN TdLoop(items, i + 1, acc, now, opts)
    ELSE LET Counted(r) ==
                 [st |-> r.st,
                  td_count |-> IF r.handled THEN acc.td_count + 1 ELSE acc.td_count]
         IN  TdLoop(items, i + 1,
                    Counted(handle_td_message(acc.st, items[i], now, opts)),
                    now, opts)

\* _Listener.on_message.  body is the frame's body: NonJson when json.loads
\* raises, else the value it returns
NonJson == [t |-> "nonjson"]
on_message(st, body, now, opts, vstp_outcome) ==
    IF body = NonJson THEN st
    ELSE IF IsDict(body)
    THEN LET vstp == handle_vstp_message(st, body, vstp_outcome)
             td == handle_td_message(st, body, now, opts)
         IN  IF vstp.handled THEN vstp.st
             ELSE IF td.handled THEN td.st
             ELSE mark_seen(st, 0)
    ELSE IF ~IsList(body) \/ body.l = <<>>
    THEN mark_seen(st, 0)
    ELSE IF IsDict(body.l[1]) /\ HasTdMsgKey(body.l[1])
    THEN LET r == TdLoop(body.l, 1, [st |-> st, td_count |-> 0], now, opts)
         IN  IF r.td_count > 0 THEN mark_seen(r.st, r.td_count)
             ELSE ProcessMovements(r.st, body, opts)
    ELSE ProcessMovements(st, body, opts)

-----------------------------------------------------------------------------
(* hub.py: the callbacks the listener hands to the event loop, as operators *)
(* on the record of what they read and write:                              *)
(*   the HubState fields written on the event loop, bs (the BerthState),   *)
(*   sent (the async_dispatcher_send calls made) and calls                 *)

\* async_dispatcher_send(hass, signal, *args)
Send(hs, signal, args) ==
    [hs EXCEPT !.sent = Append(@, [signal |-> signal, args |-> args])]

\* _update_connected that sets the flag and never clears it
update_connected_NeverClears(hs, is_connected) ==
    Send([hs EXCEPT !.connected = @ \/ is_connected], DISPATCH_CONNECTED,
         <<is_connected>>)

\* _Listener._update_connected
update_connected(hs, is_connected) ==
    Send([hs EXCEPT !.connected = is_connected], DISPATCH_CONNECTED, <<is_connected>>)

\* _Listener._update_seen
update_seen(hs, batch_count, now) ==
    [hs EXCEPT !.last_batch_count = batch_count,
               !.last_seen_monotonic = now]

\* the per-station sends of _update_movement
RECURSIVE SendPerStation(_, _)
SendPerStation(hs, station_movements) ==
    IF station_movements = <<>> THEN hs
    ELSE SendPerStation(
             Send(hs, DISPATCH_MOVEMENT \o "_" \o Head(station_movements).k, <<>>),
             Tail(station_movements))

\* _Listener._update_movement
update_movement(hs, movement, kept, station_movements, now) ==
    LET by_station == [x \in {station_movements[i].k : i \in 1..Len(station_movements)} |->
                          station_movements[CHOOSE i \in 1..Len(station_movements) :
                                               station_movements[i].k = x].v]
        hs1 == [hs EXCEPT !.last_movement = movement,
                          !.last_movement_per_station = Update(@, by_station),
                          !.last_batch_count = kept,
                          !.last_seen_monotonic = now]
    IN  SendPerStation(Send(hs1, DISPATCH_MOVEMENT, <<>>), station_movements)

\* the loop of _update_td_batch running over the batch from its end
RECURSIVE TdBatchLoop_NewestFirst(_, _)
TdBatchLoop_NewestFirst(hs, batch) ==
    IF batch = <<>> THEN hs
    ELSE LET parsed_message == batch[Len(batch)]
             hs1 == [hs EXCEPT !.last_td_message = parsed_message,
                               !.td_message_count = @ + 1]
             hs2 == IF Get(parsed_message, "msg_type", None) \in {"CA", "CB", "CC"}
                    THEN [hs1 EXCEPT
                            !.bs = update(@, parsed_message),
                            !.calls = Append(@, [op |-> "update", msg |-> parsed_message])]
                    ELSE hs1
         IN  TdBatchLoop_NewestFirst(hs2, SubSeq(batch, 1, Len(batch) - 1))

\* the first loop of _update_td_batch
RECURSIVE TdBatchLoop(_, _)
TdBatchLoop(hs, batch) ==
    IF batch = <<>> THEN hs
    ELSE LET parsed_message == Head(batch)
             hs1 == [hs EXCEPT !.last_td_message = parsed_message,
                               !.td_message_count = @ + 1]
             hs2 == IF Get(parsed_message, "msg_type", None) \in {"CA", "CB", "CC"}
                    THEN [hs1 EXCEPT
                            !.bs = update(@, parsed_message),
                            !.calls = Append(@, [op |-> "update", msg |-> parsed_message])]
                    ELSE hs1
         IN  TdBatchLoop(hs2, Tail(batch))

\* area_messages as _update_td_batch collects it, with the first message of
\* each area in place of the latest
RECURSIVE AreaMessages_KeepsFirst(_, _)
AreaMessages_KeepsFirst(batch, area_messages) ==
    IF batch = <<>> THEN area_messages
    ELSE LET area_id == Get(Head(batch), "area_id", None)
         IN  AreaMessages_KeepsFirst(
                 Tail(batch),
                 IF Truthy(area_id) /\ ~\E i \in 1..Len(area_messages) :
                                           area_messages[i].k = area_id
                 THEN OrderedPut(area_messages, area_id, Head(batch))
                 ELSE area_messages)

\* area_messages as _update_td_batch collects it: for each area_id that is
\* truthy, the latest message of the batch, in order of first occurrence
RECURSIVE AreaMessages(_, _)
AreaMessages(batch, area_messages) ==
    IF batch = <<>> THEN area_messages
    ELSE LET area_id == Get(Head(batch), "area_id", None)
         IN  AreaMessages(Tail(batch),
                          IF Truthy(area_id)
                          THEN OrderedPut(area_messages, area_id, Head(batch))
                          ELSE area_messages)

\* the per-area sends of _update_td_batch
RECURSIVE SendPerArea(_, _)
SendPerArea(hs, area_messages) ==
    IF area_messages = <<>> THEN hs
    ELSE SendPerArea(
             Send(hs, DISPATCH_TD \o "_" \o Head(area_messages).k,
                  <<Head(area_messages).v>>),
             Tail(area_messages))

\* _Listener._update_td_batch
update_td_batch(hs, batch) ==
    IF batch = <<>> THEN hs
    ELSE LET hs1 == TdBatchLoop(hs, batch)
             last_message == batch[Len(batch)]
         IN  SendPerArea(Send(hs1, DISPATCH_TD, <<last_message>>),
                         AreaMessages(batch, <<>>))

\* _Listener._update_vstp_message
update_vstp_message(hs, message) == Send(hs, DISPATCH_VSTP, <<message>>)

\* the event loop runs one of the callbacks it was handed
RunCall(hs, call, now) ==
    CASE call.fn = "_update_seen" -> update_seen(hs, call.batch_count, now)
      [] call.fn = "_update_movement" ->
            update_movement(hs, call.movement, call.kept, call.station_movements, now)
      [] call.fn = "_update_td_batch" -> update_td_batch(hs, call.batch)
      [] call.fn = "_update_vstp_message" -> update_vstp_message(hs, call.message)
      [] call.fn = "_update_connected" -> update_connected(hs, call.is_connected)
      [] call.fn = "async_dispatcher_send" -> Send(hs, call.signal, call.args)

-----------------------------------------------------------------------------
(* sensor.py: class TrackSectionSensor, as operators on the record of its  *)
(* fields.  The sensor is built without a schedule manager (vstp_manager   *)
(* is None), so a train record carries no schedule enrichment.             *)

\* TrackSectionSensor.__init__: _td_areas as configured, _section_berths as
\* _calculate_section_berths left them, no train tracked
TrackSectionSensor_init(td_areas, berth_keys) ==
    [td_areas |-> td_areas,
     section_berths |-> berth_keys,
     trains_in_section |-> EmptyDict]

\* f"{area_id}:{berth}" if berth else None
SectionBerthKey(area_id, berth) ==
    IF Truthy(berth) THEN area_id \o ":" \o berth ELSE None

\* berth_key in self._section_berths if berth_key else False
InSection(sec, berth_key) == berth_key # None /\ berth_key \in sec.section_berths

\* _train_entered_section: the record of the train replaces any it had
train_entered_section(sec, berth, headcode, td_message, now) ==
    [sec EXCEPT !.trains_in_section =
        Put(@, headcode, [headcode |-> headcode,
                          current_berth |-> berth,
                          entered_at |-> now,
                          berths_visited |-> <<berth>>,
                          td_message |-> td_message])]

\* _train_left_section
train_left_section(sec, headcode) ==
    IF headcode \in DOMAIN sec.trains_in_section
    THEN [sec EXCEPT !.trains_in_section = Pop(@, headcode)]
    ELSE sec

\* _train_moved_in_section with the append to berths_visited left out
train_moved_in_section_NoAppend(sec, from_berth, to_berth, headcode, td_message, now) ==
    IF headcode \in DOMAIN sec.trains_in_section
    THEN [sec EXCEPT !.trains_in_section[headcode] =
             [@ EXCEPT !.current_berth = to_berth,
                       !.td_message = td_message]]
    ELSE train_entered_section(sec, to_berth, headcode, td_message, now)

\* _train_moved_in_section
train_moved_in_section(sec, from_berth, to_berth, headcode, td_message, now) ==
    IF headcode \in DOMAIN sec.trains_in_section
    THEN [sec EXCEPT !.trains_in_section[headcode] =
             [@ EXCEPT !.current_berth = to_berth,
                       !.berths_visited = Append(@, to_berth),
                       !.td_message = td_message]]
    ELSE train_entered_section(sec, to_berth, headcode, td_message, now)

\* TrackSectionSensor._handle_td_message: the berths and the headcode are read
\* under the keys "from", "to" and "descr" of the message it is handed
section_handle_td_message(sec, td_message, now) ==
    LET msg_type == Get(td_message, "msg_type", None)
        area_id == Get(td_message, "area_id", None)
        from_berth == Get(td_message, "from", None)
        to_berth == Get(td_message, "to", None)
        headcode == Get(td_message, "descr", None)
        from_berth_key == SectionBerthKey(area_id, from_berth)
        to_berth_key == SectionBerthKey(area_id, to_berth)
        from_in_section == InSection(sec, from_berth_key)
        to_in_section == InSection(sec, to_berth_key)
    IN  IF sec.td_areas # {} /\ area_id \notin sec.td_areas THEN sec
        ELSE CASE msg_type = "CA" ->
                    IF ~Truthy(headcode) THEN sec
                    ELSE IF to_in_section /\ ~from_in_section
                    THEN train_entered_section(sec, to_berth_key, headcode, td_message, now)
                    ELSE IF from_in_section /\ ~to_in_section
                    THEN train_left_section(sec, headcode)
                    ELSE IF from_in_section /\ to_in_section
                    THEN train_moved_in_section(sec, from_berth_key, to_berth_key,
                                                headcode, td_message, now)
                    ELSE sec
               [] msg_type = "CB" ->
                    IF Truthy(headcode) /\ Truthy(from_berth) /\ from_in_section
                    THEN train_left_section(sec, headcode)
                    ELSE sec
               [] msg_type = "CC" ->
                    IF Truthy(headcode) /\ Truthy(to_berth) /\ to_in_section
                    THEN train_entered_section(sec, to_berth_key, headcode, td_message, now)
                    ELSE sec
               [] OTHER -> sec

\* async_dispatcher_send calls the callbacks connected to the signal before
\* it returns: a track section sensor is connected to DISPATCH_TD
RECURSIVE SectionReceives(_, _, _)
SectionReceives(sec, sends, now) ==
    IF sends = <<>> \/ sec = NoSection THEN sec
    ELSE SectionReceives(
             IF Head(sends).signal = DISPATCH_TD
             THEN section_handle_td_message(sec, Head(sends).args[1], now)
             ELSE sec,
             Tail(sends), now)

-----------------------------------------------------------------------------
(* The hub: the listener thread receives frames, the clock advances, the   *)
(* event loop runs the callbacks it was handed in the order it got them    *)

\* what on_message reads and writes; raised tells that an exception left the
\* handler
LS == [td_batch |-> td_batch,
       td_last_dispatch_time |-> td_last_dispatch_time,
       td_message_rate_window |-> td_message_rate_window,
       td_dropped_count |-> td_dropped_count,
       loop_calls |-> loop_calls,
       td_log |-> td_log,
       raised |-> FALSE]

\* what the event loop callbacks read and write
HS == [connected |-> connected,
       last_movement |-> last_movement,
       last_movement_per_station |-> last_movement_per_station,
       last_batch_count |-> last_batch_count,
       last_seen_monotonic |-> last_seen_monotonic,
       last_td_message |-> last_td_message,
       td_message_count |-> td_message_count,
       bs |-> BS,
       sent |-> <<>>,
       calls |-> calls]

\* the listener thread: on_message(frame), the whole handler at one reading
\* of the clock
OnMessage(body, vstp_outcome) ==
    /\ Len(received) < MaxFrames
    /\ \E st \in {on_message(LS, body, monotonic, options, vstp_outcome)} :
           /\ td_batch' = st.td_batch
           /\ td_last_dispatch_time' = st.td_last_dispatch_time
           /\ td_message_rate_window' = st.td_message_rate_window
           /\ td_dropped_count' = st.td_dropped_count
           /\ loop_calls' = st.loop_calls
           /\ td_log' = st.td_log
           /\ received' = Append(received, [body |-> body, at |-> monotonic,
                                            vstp_outcome |-> vstp_outcome,
                                            raised |-> st.raised])
    /\ UNCHANGED <<berth_vars, loop_state_vars, options, monotonic, sent, calls,
                   ext_vars, consumer_vars>>

\* time passes
Tick ==
    /\ monotonic < MaxTime
    /\ monotonic' = monotonic + 1
    /\ UNCHANGED <<berth_vars, loop_state_vars, listener_vars, options, loop_calls,
                   sent, calls, td_log, received, ext_vars, consumer_vars>>

\* the event loop runs the callback at the head of its queue
LoopRun ==
    /\ loop_calls # <<>>
    /\ \E hs \in {RunCall(HS, Head(loop_calls), monotonic)} :
           /\ connected' = hs.connected
           /\ last_movement' = hs.last_movement
           /\ last_movement_per_station' = hs.last_movement_per_station
           /\ last_batch_count' = hs.last_batch_count
           /\ last_seen_monotonic' = hs.last_seen_monotonic
           /\ last_td_message' = hs.last_td_message
           /\ td_message_count' = hs.td_message_count
           /\ SetBS(hs.bs)
           /\ sent' = hs.sent
           /\ calls' = hs.calls
           /\ section' = SectionReceives(section, hs.sent, monotonic)
    /\ loop_calls' = Tail(loop_calls)
    /\ UNCHANGED <<listener_vars, options, monotonic, td_log, received, ext_vars,
                   smart>>

\* the hub after OpenRailDataHub.__init__, with the options of its entry
InitHub(opts) ==
    /\ LET bs == BerthState_init(DEFAULT_TD_EVENT_HISTORY_SIZE)
       IN  /\ berths = bs.berths
           /\ event_history_size = bs.event_history_size
           /\ event_history = bs.event_history
           /\ platform_state = bs.platform_state
           /\ berth_to_platform = bs.berth_to_platform
    /\ HubStateDefaults
    /\ options = opts
    /\ monotonic = 0
    /\ loop_calls = <<>>
    /\ sent = <<>>
    /\ calls = <<>>
    /\ td_log = <<>>
    /\ received = <<>>
    /\ worker = WorkerStarted
    /\ section = NoSection
    /\ smart = SmartDataManager_init

-----------------------------------------------------------------------------
(* SpecTd: the hub on a Train Describer feed                               *)

\* the events of the feed: two in area SK, one in G1, one whose area_id is
\* the empty string
EvStep == CA_MSG("SK", "101", "102", "1A23")
EvCancel == CB_MSG("SK", "102", "1A23")
EvInterpose == CC_MSG("G1", "101", "2J01")
EvNoArea == CC_MSG("", "101", "2J01")

\* an object of two wrapper keys: an interpose in area G1 first, a cancel in
\* area SK second
EvTwoAreas ==
    JObject(<<EvInterpose.e[1], EvCancel.e[1]>>)

\* TD frames: an event on its own, and lists of events as the feed sends them
TdFrames ==
    {EvStep, EvInterpose, EvNoArea, EvTwoAreas,
     JList(<<EvStep, EvInterpose>>),
     JList(<<EvStep, EvNoArea, EvCancel>>)}

\* _handle_td_message reads the rate, the batch size and the interval with
\* options.get and uses them as they are; the model runs it with small
\* values of each
TdOptions ==
    {[DefaultOptions EXCEPT !.enable_td = TRUE,
                            !.td_areas = o.td_areas,
                            !.td_update_interval = 1,
                            !.td_max_batch_size = o.batch,
                            !.td_max_messages_per_second = o.rate] :
        o \in {[td_areas |-> {}, batch |-> 2, rate |-> 1],
               [td_areas |-> {"SK"}, batch |-> 2, rate |-> 2],
               [td_areas |-> {}, batch |-> 3, rate |-> 3]}}

InitTd == \E opts \in TdOptions : InitHub(opts)

NextTd ==
    \/ \E body \in TdFrames : OnMessage(body, "none")
    \/ Tick
    \/ LoopRun

SpecTd == InitTd /\ [][NextTd]_vars

\* the event loop runs what it was handed and the clock goes on; whether the
\* broker delivers another frame is not the program's to decide
SpecTdFair ==
    /\ SpecTd
    /\ WF_vars(LoopRun)
    /\ WF_vars(Tick)

-----------------------------------------------------------------------------
(* Spec: the hub on everything the broker can deliver                      *)

\* a train movement message (msg_type 0003) of the movement feed
Movement(stanox, event_type, toc_id) ==
    JObject(<<[k |-> "header", v |-> JDict([msg_type |-> "0003"])],
              [k |-> "body", v |-> JDict([loc_stanox |-> stanox,
                                          event_type |-> event_type,
                                          toc_id |-> toc_id])]>>)
MvArrival == Movement("88487", "ARRIVAL", "88")
MvDeparture == Movement("87701", "DEPARTURE", "80")

\* a VSTP schedule, alone and in one object with a TD wrapper key
VstpSchedule ==
    JObject(<<[k |-> "JsonScheduleV1", v |-> JDict([transaction_type |-> "Create"])]>>)
VstpAndTd ==
    JObject(<<[k |-> "JsonScheduleV1", v |-> JDict([transaction_type |-> "Create"])],
              [k |-> "CA_MSG",
               v |-> JDict([time |-> MsgTime, area_id |-> "SK", msg_type |-> "CA",
                            from |-> "101", to |-> "102", descr |-> "1A23"])]>>)

\* an object with a *_MSG key whose msg_type is none of the TD types
UnknownMsg == S_MSG("ZZ", "SK")

\* a train activation message (msg_type 0001): no movement
Activation ==
    JObject(<<[k |-> "header", v |-> JDict([msg_type |-> "0001"])],
              [k |-> "body", v |-> JDict([loc_stanox |-> "88487", toc_id |-> "88"])]>>)

\* an item whose header is a string, not an object
HeaderIsText == JObject(<<[k |-> "header", v |-> JString("0003")]>>)

Frames ==
    {NonJson,
     JString("ping"),
     JList(<<>>),
     JList(<<JString("ping")>>),
     JList(<<Activation>>),
     JList(<<HeaderIsText>>),
     JObject(<<[k |-> "foo", v |-> JString("bar")]>>),
     VstpSchedule,
     VstpAndTd,
     EvStep,
     JList(<<EvStep, EvInterpose>>),
     JList(<<EvStep, MvArrival>>),
     JList(<<UnknownMsg, MvArrival>>),
     JList(<<MvArrival, MvDeparture>>),
     JList(<<MvDeparture, EvStep>>)}

\* what can become of a frame at the VSTP manager: nothing reaches it unless
\* the frame is an object with the key JsonScheduleV1
VstpOutcomes(body) ==
    IF body # NonJson /\ IsDict(body) /\ ObjectHas(body, "JsonScheduleV1")
    THEN {"published", "discarded"}
    ELSE {"none"}

HubOptions ==
    {[DefaultOptions EXCEPT !.enable_td = TRUE, !.enable_vstp = TRUE,
                            !.td_update_interval = 1,
                            !.td_max_batch_size = 2,
                            !.td_max_messages_per_second = 2],
     [DefaultOptions EXCEPT !.enable_td = TRUE, !.enable_vstp = TRUE,
                            !.stations = <<[stanox |-> " 88487", name |-> "Ashford"]>>,
                            !.td_areas = {"SK"},
                            !.td_update_interval = 1,
                            !.td_max_batch_size = 2,
                            !.td_max_messages_per_second = 2]}

Init == \E opts \in HubOptions : InitHub(opts)

Next ==
    \/ \E body \in Frames : \E vstp_outcome \in VstpOutcomes(body) :
          OnMessage(body, vstp_outcome)
    \/ Tick
    \/ LoopRun

Spec == Init /\ [][Next]_vars

-----------------------------------------------------------------------------
(* SpecMovement: the hub on the train movement feed, under each kind of    *)
(* movement filter                                                         *)

\* movements of the feed: a second one at station 88487 and one with no
\* loc_stanox
MvSecond == Movement("88487", "DEPARTURE", "80")
MvNoStanox ==
    JObject(<<[k |-> "header", v |-> JDict([msg_type |-> "0003"])],
              [k |-> "body", v |-> JDict([event_type |-> "ARRIVAL", toc_id |-> "88"])]>>)

MovementFrames ==
    {JList(<<MvArrival, MvDeparture>>),
     JList(<<MvArrival, MvSecond, Activation>>),
     JList(<<MvDeparture, MvNoStanox, MvArrival>>),
     JList(<<MvNoStanox>>),
     JList(<<Activation>>)}

\* no filter; the legacy filter with a configured station; a station with a
\* TOC filter; an event type filter with a blank legacy filter; all three
MovementOptions ==
    {DefaultOptions,
     [DefaultOptions EXCEPT !.stanox_filter = "87701",
                            !.stations = <<[stanox |-> " 88487 ", name |-> "Ashford"]>>],
     [DefaultOptions EXCEPT !.stations = <<[stanox |-> "88487", name |-> "Ashford"]>>,
                            !.toc_filter = "88"],
     [DefaultOptions EXCEPT !.stanox_filter = " ",
                            !.event_types = {"ARRIVAL"}],
     [DefaultOptions EXCEPT !.stanox_filter = "87701",
                            !.toc_filter = "80",
                            !.event_types = {"DEPARTURE"}]}

InitMovement == \E opts \in MovementOptions : InitHub(opts)

NextMovement ==
    \/ \E body \in MovementFrames : OnMessage(body, "none")
    \/ Tick
    \/ LoopRun

SpecMovement == InitMovement /\ [][NextMovement]_vars

-----------------------------------------------------------------------------
(* SpecSection: the hub on a Train Describer feed with a track section     *)
(* sensor connected to its TD signal                                       *)

\* async_setup_entry builds the sensor of a configured track section and
\* async_added_to_hass connects it to DISPATCH_TD
AddTrackSection(td_areas, berth_keys) ==
    /\ section = NoSection
    /\ section' = TrackSectionSensor_init(td_areas, berth_keys)
    /\ UNCHANGED <<berth_vars, loop_state_vars, listener_vars, options, monotonic,
                   loop_calls, sent, calls, td_log, received, ext_vars, smart>>

\* the berths of the monitored section: SK 102 and SK 103; 101 and 104 lie
\* outside it
SectionBerths == {"SK:102", "SK:103"}

\* the section is set up for every area, for the area of its berths, or for
\* another area
SectionAreas == {{}, {"SK"}, {"G1"}}

\* a train steps into the section, through it and out of it, another is
\* interposed in it and cancelled, and a train steps in another area
SectionFrames ==
    {CA_MSG("SK", "101", "102", "1A23"),
     CA_MSG("SK", "102", "103", "1A23"),
     CA_MSG("SK", "103", "104", "1A23"),
     CC_MSG("SK", "102", "2J01"),
     CB_MSG("SK", "102", "2J01"),
     CA_MSG("G1", "101", "102", "1A23"),
     JList(<<CA_MSG("SK", "101", "102", "1A23"), CA_MSG("SK", "102", "103", "1A23")>>)}

SectionOptions ==
    [DefaultOptions EXCEPT !.enable_td = TRUE,
                           !.td_update_interval = 1,
                           !.td_max_batch_size = 2,
                           !.td_max_messages_per_second = 3]

InitSection == InitHub(SectionOptions)

NextSection ==
    \/ \E td_areas \in SectionAreas : AddTrackSection(td_areas, SectionBerths)
    \/ \E body \in SectionFrames : OnMessage(body, "none")
    \/ Tick
    \/ LoopRun

SpecSection == InitSection /\ [][NextSection]_vars

-----------------------------------------------------------------------------
(* SpecSectionMessages: the track section sensor called with messages      *)
(* that carry the berths and the headcode under the keys it reads          *)

\* the dict of a Train Describer frame of one message, as it is on the wire
WireMessage(frame) == frame.e[1].v.v

\* a train enters the section, moves in it back and forth and leaves it; a
\* second one moves in it untracked, is interposed and cancelled; messages
\* of another area, without a headcode, and between berths outside it
SectionMessages ==
    {WireMessage(CA_MSG("SK", "101", "102", "1A23")),
     WireMessage(CA_MSG("SK", "102", "103", "1A23")),
     WireMessage(CA_MSG("SK", "103", "102", "1A23")),
     WireMessage(CA_MSG("SK", "103", "104", "1A23")),
     WireMessage(CA_MSG("SK", "102", "103", "2J01")),
     WireMessage(CC_MSG("SK", "102", "2J01")),
     WireMessage(CB_MSG("SK", "102", "2J01")),
     WireMessage(CA_MSG("G1", "101", "102", "1A23")),
     WireMessage(CA_MSG("SK", "101", "102", "")),
     WireMessage(CA_MSG("SK", "101", "104", "1A23"))}

\* no tracked train has been followed further than MaxVisited berths
WithinVisited(sec) ==
    \A h \in DOMAIN sec.trains_in_section :
        Len(sec.trains_in_section[h].berths_visited) <= MaxVisited

\* the callback _handle_td_message is called with a message
SectionHandles(td_message) ==
    /\ section # NoSection
    /\ \E sec \in {section_handle_td_message(section, td_message, monotonic)} :
           /\ WithinVisited(sec)
           /\ section' = sec
    /\ UNCHANGED <<berth_vars, loop_state_vars, listener_vars, options, monotonic,
                   loop_calls, sent, calls, td_log, received, ext_vars, smart>>

NextSectionMessages ==
    \/ \E td_areas \in SectionAreas : AddTrackSection(td_areas, SectionBerths)
    \/ \E td_message \in SectionMessages : SectionHandles(td_message)
    \/ Tick

SpecSectionMessages == InitSection /\ [][NextSectionMessages]_vars

-----------------------------------------------------------------------------
(* smart_data.py: class SmartDataManager.  The content of the reference    *)
(* data file is a text; the model keeps it as its sequence of lines, each  *)
(* line blank, the JSON value written on it, or text that is no JSON.      *)

BlankLine == [t |-> "blank"]
NotJsonLine == [t |-> "garbage"]

\* text.strip().split('\n') without the blank lines that strip() removes at
\* both ends
RECURSIVE StripBlankLines(_)
StripBlankLines(content) ==
    IF content # <<>> /\ Head(content) = BlankLine THEN StripBlankLines(Tail(content))
    ELSE IF content # <<>> /\ content[Len(content)] = BlankLine
    THEN StripBlankLines(SubSeq(content, 1, Len(content) - 1))
    ELSE content

\* json.loads(text): the value of a text that holds one JSON value and
\* nothing else but white space; JSONDecodeError otherwise
json_loads(content) ==
    LET lines == StripBlankLines(content)
    IN  IF Len(lines) = 1 /\ lines[1] # NotJsonLine
        THEN [ok |-> TRUE, value |-> lines[1]]
        ELSE [ok |-> FALSE]

\* the newline-delimited attempt of _parse_smart_data over the lines left:
\* a line that is no JSON ends the parse with False and leaves in _data the
\* objects read before it
RECURSIVE NdjsonLoop(_, _)
NdjsonLoop(data, lines) ==
    IF lines = <<>> THEN [ok |-> data # <<>>, data |-> data]
    ELSE IF Head(lines) = BlankLine THEN NdjsonLoop(data, Tail(lines))
    ELSE IF Head(lines) = NotJsonLine THEN [ok |-> FALSE, data |-> data]
    ELSE NdjsonLoop(IF IsDict(Head(lines)) THEN Append(data, Head(lines)) ELSE data,
                    Tail(lines))

\* _parse_smart_data with the BERTHDATA wrapper taken for a single record
ParseWhole_WrapperIsRecord(loaded, content) ==
    IF loaded.ok /\ IsList(loaded.value)
    THEN [ok |-> TRUE, data |-> loaded.value.l]
    ELSE IF loaded.ok /\ IsDict(loaded.value)
    THEN [ok |-> TRUE, data |-> <<loaded.value>>]
    ELSE NdjsonLoop(<<>>, StripBlankLines(content))

\* _parse_smart_data after json.loads(content): a list is taken as it is, an
\* object with a BERTHDATA list gives that list unless it is empty, any other
\* object is one record; everything else goes to the newline-delimited attempt
ParseWhole(loaded, content) ==
    IF loaded.ok /\ IsList(loaded.value)
    THEN [ok |-> TRUE, data |-> loaded.value.l]
    ELSE IF loaded.ok /\ IsDict(loaded.value)
    THEN IF "BERTHDATA" \in DOMAIN loaded.value.v /\ IsList(loaded.value.v["BERTHDATA"])
         THEN IF loaded.value.v["BERTHDATA"].l = <<>>
              THEN [ok |-> FALSE, data |-> <<>>]
              ELSE [ok |-> TRUE, data |-> loaded.value.v["BERTHDATA"].l]
         ELSE [ok |-> TRUE, data |-> <<loaded.value>>]
    ELSE NdjsonLoop(<<>>, StripBlankLines(content))

\* SmartDataManager._parse_smart_data: the value it returns and what it
\* leaves in _data
parse_smart_data(content) == ParseWhole(json_loads(content), content)

EmptyGraph ==
    [berth_to_connections |-> EmptyDict,
     stanox_to_berths |-> EmptyDict,
     berth_to_stanox |-> EmptyDict]

NoConnections == [from |-> <<>>, to |-> <<>>]

\* f"{td_area}:{berth}"
SmartBerthKey(td_area, berth) == td_area \o ":" \o berth

\* the connections of a record with the reverse entry left out
AddConnections_ForwardOnly(connections, td_area, from_berth, to_berth, from_line, to_line, steptype) ==
    LET from_key == SmartBerthKey(td_area, from_berth)
        to_key == SmartBerthKey(td_area, to_berth)
        WithKey(c, key) == IF key \in DOMAIN c THEN c ELSE Put(c, key, NoConnections)
        AddTo(c) == [c EXCEPT ![from_key].to =
                        Append(@, [berth |-> to_berth, td_area |-> td_area,
                                   line |-> to_line, steptype |-> steptype])]
    IN  WithKey(AddTo(WithKey(connections, from_key)), to_key)

\* _build_graph: the connections of a record with a TD, a FROMBERTH and a
\* TOBERTH
AddConnections(connections, td_area, from_berth, to_berth, from_line, to_line, steptype) ==
    LET from_key == SmartBerthKey(td_area, from_berth)
        to_key == SmartBerthKey(td_area, to_berth)
        WithKey(c, key) == IF key \in DOMAIN c THEN c ELSE Put(c, key, NoConnections)
        AddTo(c) == [c EXCEPT ![from_key].to =
                        Append(@, [berth |-> to_berth, td_area |-> td_area,
                                   line |-> to_line, steptype |-> steptype])]
        AddFrom(c) == [c EXCEPT ![to_key].from =
                          Append(@, [berth |-> from_berth, td_area |-> td_area,
                                     line |-> from_line, steptype |-> steptype])]
    IN  AddFrom(WithKey(AddTo(WithKey(connections, from_key)), to_key))

\* _build_graph: the station entries of a record with a STANOX
AddStation(graph, stanox, berth_info) ==
    LET td_area == berth_info.td_area
        WithFrom(b) == IF berth_info.from_berth # "" /\ td_area # ""
                       THEN Put(b, SmartBerthKey(td_area, berth_info.from_berth), stanox)
                       ELSE b
        WithTo(b) == IF berth_info.to_berth # "" /\ td_area # ""
                     THEN Put(b, SmartBerthKey(td_area, berth_info.to_berth), stanox)
                     ELSE b
    IN  [graph EXCEPT
           !.stanox_to_berths = Put(@, stanox, Append(Get(@, stanox, <<>>), berth_info)),
           !.berth_to_stanox = WithTo(WithFrom(@))]

\* the loop of _build_graph over the records left; a record that is no object
\* has no .get, and the loop ends with AttributeError
RECURSIVE BuildGraphLoop(_, _)
BuildGraphLoop(graph, data) ==
    IF data = <<>> THEN [raised |-> FALSE, graph |-> graph]
    ELSE IF ~IsDict(Head(data)) THEN [raised |-> TRUE, graph |-> graph]
    ELSE LET record == Head(data).v
             F(name) == Strip(Get(record, name, ""))
             WithConnections(g) ==
                 IF F("TD") # "" /\ F("FROMBERTH") # "" /\ F("TOBERTH") # ""
                 THEN [g EXCEPT !.berth_to_connections =
                          AddConnections(@, F("TD"), F("FROMBERTH"), F("TOBERTH"),
                                         F("FROMLINE"), F("TOLINE"), F("STEPTYPE"))]
                 ELSE g
             WithStation(g) ==
                 IF F("STANOX") # ""
                 THEN AddStation(g, F("STANOX"),
                                 [td_area |-> F("TD"),
                                  from_berth |-> F("FROMBERTH"),
                                  to_berth |-> F("TOBERTH"),
                                  stanme |-> F("STANME"),
                                  platform |-> F("PLATFORM"),
                                  event |-> F("EVENT"),
                                  steptype |-> F("STEPTYPE")])
                 ELSE g
         IN  BuildGraphLoop(WithStation(WithConnections(graph)), Tail(data))

\* SmartDataManager._build_graph on the records of _data
build_graph(data) == BuildGraphLoop(EmptyGraph, data)

\* SmartDataManager.is_available
is_available(sm) == Len(sm.data) > 0

\* SmartDataManager.get_graph
get_graph(sm) == sm.graph

-----------------------------------------------------------------------------
(* smart_utils.py: queries on the graph of the reference data              *)

\* the elements of a set in some order (Python iterates a set in an order of
\* its own; the searches below give the same result for every order)
RECURSIVE SetToSeq(_)
SetToSeq(S) ==
    IF S = {} THEN <<>>
    ELSE LET x == CHOOSE y \in S : TRUE IN <<x>> \o SetToSeq(S \ {x})

\* whether find_adjacent_stations_multihop records the station at distance d,
\* with the comparison with the recorded distance left out
ShouldRecord_Always(adjacent_stations, conn_stanox, d) == TRUE

\* conn_stanox not in adjacent_stations or d < adjacent_stations[conn_stanox]
ShouldRecord(adjacent_stations, conn_stanox, d) ==
    conn_stanox \notin DOMAIN adjacent_stations \/ d < adjacent_stations[conn_stanox]

\* the body of the loop over the connections of the berth taken off the queue
MultihopVisit(acc, conn, distance, berth_to_stanox, center_stanox) ==
    LET conn_td_area == Get(conn, "td_area", "")
        conn_berth == Get(conn, "berth", "")
        conn_key == SmartBerthKey(conn_td_area, conn_berth)
        conn_stanox == Get(berth_to_stanox, conn_key, None)
        Recorded(a) ==
            IF /\ Truthy(conn_stanox)
               /\ conn_stanox # center_stanox
               /\ ShouldRecord(a, conn_stanox, distance + 1)
            THEN Put(a, conn_stanox, distance + 1)
            ELSE a
    IN  IF conn_td_area = "" \/ conn_berth = "" THEN acc
        ELSE IF conn_key \notin acc.visited_berths
        THEN [queue |-> Append(acc.queue, [berth |-> conn_key, distance |-> distance + 1]),
              visited_berths |-> acc.visited_berths \cup {conn_key},
              adjacent_stations |-> Recorded(acc.adjacent_stations)]
        ELSE [acc EXCEPT !.adjacent_stations = Recorded(@)]

RECURSIVE MultihopConns(_, _, _, _, _)
MultihopConns(acc, conns, distance, berth_to_stanox, center_stanox) ==
    IF conns = <<>> THEN acc
    ELSE MultihopConns(
             MultihopVisit(acc, Head(conns), distance, berth_to_stanox, center_stanox),
             Tail(conns), distance, berth_to_stanox, center_stanox)

\* the while loop of find_adjacent_stations_multihop
RECURSIVE MultihopLoop(_, _, _, _)
MultihopLoop(acc, graph, center_stanox, max_hops) ==
    IF acc.queue = <<>> THEN acc.adjacent_stations
    ELSE LET current == Head(acc.queue)
             rest == [acc EXCEPT !.queue = Tail(@)]
             connections == Get(Get(graph, "berth_to_connections", EmptyDict),
                                current.berth, EmptyDict)
         IN  IF current.distance >= max_hops
             THEN MultihopLoop(rest, graph, center_stanox, max_hops)
             ELSE MultihopLoop(
                      MultihopConns(rest,
                                    Get(connections, "from", <<>>)
                                        \o Get(connections, "to", <<>>),
                                    current.distance,
                                    Get(graph, "berth_to_stanox", EmptyDict),
                                    center_stanox),
                      graph, center_stanox, max_hops)

\* find_adjacent_stations_multihop(graph, center_berth_keys, center_stanox,
\* max_hops): stanox -> hop distance
find_adjacent_stations_multihop(graph, center_berth_keys, center_stanox, max_hops) ==
    MultihopLoop([queue |-> [i \in 1..Cardinality(center_berth_keys) |->
                                [berth |-> SetToSeq(center_berth_keys)[i], distance |-> 0]],
                  visited_berths |-> center_berth_keys,
                  adjacent_stations |-> EmptyDict],
                 graph, center_stanox, max_hops)

\* the berth keys of the records of a station, in the order the searches
\* meet them: for each record its from_berth, then its to_berth
RECURSIVE RecordBerthKeys(_)
RecordBerthKeys(berth_records) ==
    IF berth_records = <<>> THEN <<>>
    ELSE LET record == Head(berth_records)
             td_area == Get(record, "td_area", "")
             from_berth == Get(record, "from_berth", "")
             to_berth == Get(record, "to_berth", "")
         IN  (IF from_berth # "" /\ td_area # ""
              THEN <<SmartBerthKey(td_area, from_berth)>> ELSE <<>>)
             \o (IF to_berth # "" /\ td_area # ""
                 THEN <<SmartBerthKey(td_area, to_berth)>> ELSE <<>>)
             \o RecordBerthKeys(Tail(berth_records))

\* get_station_berths_with_connections, as far as the multi-hop discovery:
\* the berths of the station's records are the centre of the search
station_adjacent_stations(graph, stanox, max_hops) ==
    LET berth_records == Get(Get(graph, "stanox_to_berths", EmptyDict), stanox, <<>>)
        berth_keys == {RecordBerthKeys(berth_records)[i] :
                          i \in 1..Len(RecordBerthKeys(berth_records))}
    IN  find_adjacent_stations_multihop(graph, berth_keys, stanox, max_hops)

\* the queue get_berth_route starts from: a path of one berth for the
\* from_berth of each of the origin's records, and for its to_berth unless the
\* berth was met before
RECURSIVE RouteStart(_, _)
RouteStart(berth_records, acc) ==
    IF berth_records = <<>> THEN acc
    ELSE LET record == Head(berth_records)
             td_area == Get(record, "td_area", "")
             from_berth == Get(record, "from_berth", "")
             to_berth == Get(record, "to_berth", "")
             WithFrom(a) ==
                 IF from_berth # "" /\ td_area # ""
                 THEN [queue |-> Append(a.queue, <<SmartBerthKey(td_area, from_berth)>>),
                       visited |-> a.visited \cup {SmartBerthKey(td_area, from_berth)}]
                 ELSE a
             WithTo(a) ==
                 IF to_berth # "" /\ td_area # ""
                    /\ SmartBerthKey(td_area, to_berth) \notin a.visited
                 THEN [queue |-> Append(a.queue, <<SmartBerthKey(td_area, to_berth)>>),
                       visited |-> a.visited \cup {SmartBerthKey(td_area, to_berth)}]
                 ELSE a
         IN  RouteStart(Tail(berth_records), WithTo(WithFrom(acc)))

\* the loop of get_berth_route over the "to" connections of the current berth
RECURSIVE RouteConns(_, _, _)
RouteConns(acc, conns, path) ==
    IF conns = <<>> THEN acc
    ELSE LET conn_td_area == Get(Head(conns), "td_area", "")
             conn_berth == Get(Head(conns), "berth", "")
             next_key == SmartBerthKey(conn_td_area, conn_berth)
         IN  RouteConns(
                 IF conn_td_area # "" /\ conn_berth # "" /\ next_key \notin acc.visited
                 THEN [queue |-> Append(acc.queue, Append(path, next_key)),
                       visited |-> acc.visited \cup {next_key}]
                 ELSE acc,
                 Tail(conns), path)

\* the result of get_berth_route for a path of berth keys: each berth with
\* its station (the key stands for berth_id and td_area)
RouteResult(path, berth_to_stanox) ==
    [i \in 1..Len(path) |-> [berth_key |-> path[i],
                             stanox |-> Get(berth_to_stanox, path[i], None)]]

\* the while loop of get_berth_route
RECURSIVE RouteLoop(_, _, _, _)
RouteLoop(acc, graph, dest_berth_keys, max_hops) ==
    IF acc.queue = <<>> THEN <<>>
    ELSE LET path == Head(acc.queue)
             current_key == path[Len(path)]
             rest == [acc EXCEPT !.queue = Tail(@)]
             connections == Get(Get(graph, "berth_to_connections", EmptyDict),
                                current_key, EmptyDict)
         IN  IF current_key \in dest_berth_keys
             THEN RouteResult(path, Get(graph, "berth_to_stanox", EmptyDict))
             ELSE IF Len(path) >= max_hops
             THEN RouteLoop(rest, graph, dest_berth_keys, max_hops)
             ELSE RouteLoop(RouteConns(rest, Get(connections, "to", <<>>), path),
                            graph, dest_berth_keys, max_hops)

\* get_berth_route(graph, from_stanox, to_stanox, max_hops)
get_berth_route(graph, from_stanox, to_stanox, max_hops) ==
    LET stanox_to_berths == Get(graph, "stanox_to_berths", EmptyDict)
        from_berth_records == Get(stanox_to_berths, from_stanox, <<>>)
        to_berth_records == Get(stanox_to_berths, to_stanox, <<>>)
        dest_keys == RecordBerthKeys(to_berth_records)
    IN  IF from_berth_records = <<>> \/ to_berth_records = <<>> THEN <<>>
        ELSE RouteLoop(RouteStart(from_berth_records,
                                  [queue |-> <<>>, visited |-> {}]),
                       graph,
                       {dest_keys[i] : i \in 1..Len(dest_keys)},
                       max_hops)

-----------------------------------------------------------------------------
(* SpecSmart: a SmartDataManager that loads reference data, and the        *)
(* queries made on its graph                                               *)

\* the download failed before any content was read
NoContent == <<[t |-> "nothing"]>>
\* no cache file exists
NoCache == <<[t |-> "nocache"]>>

\* what refresh_data and _load_from_cache do with a content: parse it, and
\* build the graph if the parse reports success; an exception of _build_graph
\* is caught by the caller, which reports failure.  status is the status the
\* proxy answered with, 0 where no answer came or no request was made
ParseAndBuild(sm, content) ==
    LET Built(sm1, built) == [ok |-> ~built.raised, parse_ok |-> TRUE,
                              content |-> content, status |-> 0,
                              sm |-> [sm1 EXCEPT !.graph = built.graph]]
        Parsed(parsed) ==
            IF ~parsed.ok
            THEN [ok |-> FALSE, parse_ok |-> FALSE, content |-> content,
                  status |-> 0, sm |-> [sm EXCEPT !.data = parsed.data]]
            ELSE Built([sm EXCEPT !.data = parsed.data], build_graph(parsed.data))
    IN  Parsed(parse_smart_data(content))

\* the load parsed nothing
NothingParsed(sm) ==
    [ok |-> FALSE, parse_ok |-> FALSE, content |-> NoContent, status |-> 0,
     sm |-> sm]

\* an answer of a server: its status, whether a Location header comes with
\* it, and the bytes of its body: gzip or plain, sound or not, and the text
\* they hold
HttpResponse(status, has_location, body) ==
    [status |-> status, has_location |-> has_location, body |-> body]
Bytes(gzip, sound, text) == [gzip |-> gzip, sound |-> sound, text |-> text]
NoBytes == Bytes(FALSE, TRUE, <<>>)

\* SmartDataManager._decompress_and_decode: the text of the bytes, gzip or
\* plain; None (here NoContent) when gzip.decompress or decode raises
decompress_and_decode(raw_data) ==
    IF raw_data.sound THEN raw_data.text ELSE NoContent

\* the statuses refresh_data follows as a redirect
REDIRECT_STATUSES == {301, 302, 303, 307, 308}

\* the download with the tests of the proxy's status left out: the body of
\* whatever answer came is taken as the content
Download_AnyStatus(download) ==
    IF download.outcome = "raised" THEN NoContent
    ELSE IF download.response.status \in REDIRECT_STATUSES /\ download.response.has_location
    THEN decompress_and_decode(download.s3_response.body)
    ELSE decompress_and_decode(download.response.body)

\* the download of refresh_data: the content it goes on to parse, NoContent
\* where it returns False.  download is what the session gave: "raised" for
\* an aiohttp.ClientError, else the answer of the proxy and the answer of
\* the redirect target
Download(download) ==
    IF download.outcome = "raised" THEN NoContent
    ELSE IF download.response.status = 401 THEN NoContent
    ELSE IF download.response.status \in REDIRECT_STATUSES
    THEN IF ~download.response.has_location THEN NoContent
         ELSE IF download.s3_response.status # 200 THEN NoContent
         ELSE decompress_and_decode(download.s3_response.body)
    ELSE IF download.response.status = 200
    THEN decompress_and_decode(download.response.body)
    ELSE NoContent

\* SmartDataManager.refresh_data with what the download gave, at the instant
\* now of the clock
refresh_data(sm, download, now) ==
    LET Stamped(r) == IF r.ok THEN [r EXCEPT !.sm.last_updated = now] ELSE r
        Got(content) == IF content = NoContent THEN NothingParsed(sm)
                        ELSE Stamped(ParseAndBuild(sm, content))
    IN  [Got(Download(download)) EXCEPT !.status = download.response.status]

\* SmartDataManager._load_from_cache with the timestamp and the content of
\* the cache file; NoCache for a file that is missing or older than
\* SMART_CACHE_EXPIRY_DAYS
load_from_cache(sm, cached, timestamp) ==
    IF cached = NoCache THEN NothingParsed(sm)
    ELSE LET Read(sm1) == IF cached = <<>> THEN NothingParsed(sm1)
                          ELSE ParseAndBuild(sm1, cached)
         IN  Read(IF Truthy(timestamp) THEN [sm EXCEPT !.last_updated = timestamp]
                  ELSE sm)

\* SmartDataManager.load_data
load_data(sm, cached, timestamp, download, now) ==
    LET Tried(r) == IF r.ok THEN r ELSE refresh_data(r.sm, download, now)
    IN  Tried(load_from_cache(sm, cached, timestamp))

\* get_adjacent_berths
get_adjacent_berths(graph, berth_id, td_area) ==
    LET connections == Get(graph, "berth_to_connections", EmptyDict)
        result == Get(connections, SmartBerthKey(td_area, berth_id), NoConnections)
    IN  [from |-> Get(result, "from", <<>>), to |-> Get(result, "to", <<>>)]

\* get_berths_for_stanox with a record of no content for a station that is
\* not known
get_berths_for_stanox_Placeholder(graph, stanox) ==
    Get(Get(graph, "stanox_to_berths", EmptyDict), stanox, <<NoneDict>>)

\* get_berths_for_stanox
get_berths_for_stanox(graph, stanox) ==
    Get(Get(graph, "stanox_to_berths", EmptyDict), stanox, <<>>)

\* get_berth_to_platform_mapping: the loop over the records of one station
RECURSIVE PlatformsOfRecords(_, _, _)
PlatformsOfRecords(mapping, berth_records, td_area) ==
    IF berth_records = <<>> THEN mapping
    ELSE LET record == Head(berth_records)
             platform == Strip(Get(record, "platform", ""))
             from_berth == Strip(Get(record, "from_berth", ""))
             to_berth == Strip(Get(record, "to_berth", ""))
             WithFrom(m) == IF from_berth # "" THEN Put(m, from_berth, platform) ELSE m
             WithTo(m) == IF to_berth # "" THEN Put(m, to_berth, platform) ELSE m
         IN  PlatformsOfRecords(
                 IF Get(record, "td_area", None) = td_area /\ platform # ""
                 THEN WithTo(WithFrom(mapping))
                 ELSE mapping,
                 Tail(berth_records), td_area)

\* get_berth_to_platform_mapping: the loop over stanox_to_berths.values()
\* (the reference data of this model name a platform at one station only, so
\* the order of the stations does not tell)
RECURSIVE PlatformsOfStations(_, _, _, _)
PlatformsOfStations(mapping, stations, stanox_to_berths, td_area) ==
    IF stations = <<>> THEN mapping
    ELSE PlatformsOfStations(
             PlatformsOfRecords(mapping, stanox_to_berths[Head(stations)], td_area),
             Tail(stations), stanox_to_berths, td_area)

\* get_berth_to_platform_mapping
get_berth_to_platform_mapping(graph, td_area) ==
    LET stanox_to_berths == Get(graph, "stanox_to_berths", EmptyDict)
    IN  PlatformsOfStations(EmptyDict, SetToSeq(DOMAIN stanox_to_berths),
                            stanox_to_berths, td_area)

\* async_setup_entry of the sensors: the loop over the configured TD areas
\* that turns the berth ids of each area's mapping into berth keys
RECURSIVE AreasPlatformMapping(_, _, _)
AreasPlatformMapping(berth_platform_mapping, graph, td_areas) ==
    IF td_areas = <<>> THEN berth_platform_mapping
    ELSE LET area_id == Head(td_areas)
             area_mapping == get_berth_to_platform_mapping(graph, area_id)
             keyed == [k \in {BerthKey(area_id, b) : b \in DOMAIN area_mapping} |->
                          area_mapping[CHOOSE b \in DOMAIN area_mapping :
                                           BerthKey(area_id, b) = k]]
         IN  AreasPlatformMapping(
                 [k \in DOMAIN berth_platform_mapping \cup DOMAIN keyed |->
                     IF k \in DOMAIN keyed THEN keyed[k]
                     ELSE berth_platform_mapping[k]],
                 graph, Tail(td_areas))

\* a load leaves in smart.last the content it parsed last, whether the proxy
\* answered it with 401, and what the parse and the load reported; the result of the last query is kept for reading
\* until the next load or query
AfterLoad(op, r) ==
    [r.sm EXCEPT !.last = [op |-> op, content |-> r.content,
                           unauthorized |-> r.status = 401,
                           parse_ok |-> r.parse_ok, ok |-> r.ok],
                 !.adjacent = NoneDict,
                 !.route = NoneDict,
                 !.answers = NoneDict]

SmartUnchanged ==
    UNCHANGED <<berth_vars, loop_state_vars, listener_vars, options, monotonic,
                loop_calls, sent, calls, td_log, received, ext_vars, section>>

RefreshData(download, now) ==
    /\ \E r \in {refresh_data(smart, download, now)} :
           smart' = AfterLoad("refresh_data", r)
    /\ SmartUnchanged

LoadData(cached, timestamp, download, now) ==
    /\ \E r \in {load_data(smart, cached, timestamp, download, now)} :
           smart' = AfterLoad("load_data", r)
    /\ SmartUnchanged

FindAdjacentStations(stanox, max_hops) ==
    /\ smart' = [smart EXCEPT
                    !.adjacent =
                        [stanox |-> stanox, max_hops |-> max_hops,
                         result |-> station_adjacent_stations(smart.graph, stanox,
                                                              max_hops)],
                    !.route = NoneDict]
    /\ SmartUnchanged

GetBerthRoute(from_stanox, to_stanox, max_hops) ==
    /\ smart' = [smart EXCEPT
                    !.route =
                        [from_stanox |-> from_stanox, to_stanox |-> to_stanox,
                         max_hops |-> max_hops,
                         result |-> get_berth_route(smart.graph, from_stanox,
                                                    to_stanox, max_hops)],
                    !.adjacent = NoneDict]
    /\ SmartUnchanged

\* a record of the reference data: a step between two berths of an area,
\* reported at a station or at none
SmartRecord(td, from_berth, to_berth, stanox) ==
    JDict([TD |-> td, FROMBERTH |-> from_berth, TOBERTH |-> to_berth,
           STANOX |-> stanox, STANME |-> "", STEPTYPE |-> "B", EVENT |-> "A",
           PLATFORM |-> "", FROMLINE |-> "", TOLINE |-> ""])
Step(from_berth, to_berth) == SmartRecord("SK", from_berth, to_berth, "")
At(berth, stanox) == SmartRecord("SK", berth, "", stanox)
StepAt(from_berth, to_berth, stanox) == SmartRecord("SK", from_berth, to_berth, stanox)

\* the stations of the lists below
SmartStations == {"111", "222", "333"}

\* lists of connectivity records:
\*   no record; one step at a station;
\*   station 222 two hops from 111 through berth 02 and three through 04, 05;
\*   two stations whose records share berth 02;
\*   222 before 111 on a line of one direction, 333 one step behind 222;
\*   a berth of two stations with one neighbour;
\*   a record whose fields carry blanks
SmartRecordLists ==
    {<<>>,
     <<StepAt("01", "02", "111")>>,
     <<At("01", "111"), Step("01", "02"), Step("02", "03"), At("03", "222"),
       Step("01", "04"), Step("04", "05"), Step("05", "03")>>,
     <<StepAt("01", "02", "111"), StepAt("02", "03", "222")>>,
     <<At("03", "222"), Step("03", "02"), Step("02", "01"), At("01", "111"),
       At("04", "333"), Step("04", "03")>>,
     <<At("01", "111"), At("01", "222"), Step("01", "02")>>,
     <<SmartRecord(" SK", "01 ", " 02 ", " 111 "), StepAt("02", "03", "222")>>}

\* json.dumps(records), json.dumps({"BERTHDATA": records}) and one record
\* on each line
RenderArray(records) == <<JList(records)>>
RenderWrapper(records) == <<JDict([BERTHDATA |-> JList(records)])>>
RenderNdjson(records) == records

\* other contents: an empty file, text that is no JSON, a JSON string, a
\* single object, lines of which the second is no JSON, lines with a blank
\* line between them, an array that holds a string, an array that holds a
\* record and then a string
OtherContents ==
    {<<>>,
     <<NotJsonLine>>,
     <<JString("SMART")>>,
     <<JDict([BERTHDATA |-> JString("none")])>>,
     <<StepAt("01", "02", "111"), NotJsonLine>>,
     <<BlankLine, StepAt("01", "02", "111"), BlankLine, StepAt("02", "03", "222"), BlankLine>>,
     <<JList(<<JString("SMART")>>)>>,
     <<JList(<<StepAt("01", "02", "111"), JString("SMART")>>)>>}

SmartContents ==
    {RenderArray(records) : records \in SmartRecordLists}
    \cup {RenderWrapper(records) : records \in SmartRecordLists}
    \cup {RenderNdjson(records) : records \in SmartRecordLists}
    \cup OtherContents

\* what the cache file holds when load_data reads it, and what the download
\* gives when the cache does not serve
CachedContents ==
    {NoCache, <<>>, RenderArray(<<>>), <<NotJsonLine>>,
     RenderWrapper(<<StepAt("01", "02", "111"), StepAt("02", "03", "222")>>)}
DownloadedContents ==
    {RenderNdjson(<<StepAt("01", "02", "111")>>)}

\* the instant of the clock at a download, and the timestamps a cache file
\* can hold: none, or that of an earlier download
Instants == {"t1"}
CacheTimestamps == {None, "t0"}

\* what the session gives: the proxy redirects to a target that answers 200
\* with the content, gzip or plain; the proxy answers 200 itself
Redirected(body) ==
    [outcome |-> "answered",
     response |-> HttpResponse(302, TRUE, NoBytes),
     s3_response |-> HttpResponse(200, FALSE, body)]
Direct(response) ==
    [outcome |-> "answered", response |-> response,
     s3_response |-> HttpResponse(0, FALSE, NoBytes)]

Unauthorized ==
    Direct(HttpResponse(401, FALSE, Bytes(FALSE, TRUE, <<JString("Unauthorized")>>)))

\* the downloads that end without a content: the proxy answers 401, a
\* redirect without Location, a status that is none of the expected ones;
\* the target answers 403; the bytes cannot be decompressed or decoded; the
\* session raises
FailedDownloads ==
    {Unauthorized,
     Direct(HttpResponse(302, FALSE, NoBytes)),
     Direct(HttpResponse(500, FALSE, NoBytes)),
     [outcome |-> "answered",
      response |-> HttpResponse(307, TRUE, NoBytes),
      s3_response |-> HttpResponse(403, FALSE, NoBytes)],
     Redirected(Bytes(TRUE, FALSE, <<>>)),
     Direct(HttpResponse(200, FALSE, Bytes(FALSE, FALSE, <<>>))),
     [outcome |-> "raised",
      response |-> HttpResponse(0, FALSE, NoBytes),
      s3_response |-> HttpResponse(0, FALSE, NoBytes)]}

Downloads ==
    {Redirected(Bytes(TRUE, TRUE, content)) : content \in SmartContents}
    \cup {Direct(HttpResponse(200, FALSE, Bytes(FALSE, TRUE, content))) :
              content \in DownloadedContents}
    \cup FailedDownloads

InitSmart == InitHub(DefaultOptions)

NextSmart ==
    \/ \E download \in Downloads, now \in Instants : RefreshData(download, now)
    \/ \E cached \in CachedContents, timestamp \in CacheTimestamps,
          download \in {Unauthorized}
                       \cup {Redirected(Bytes(TRUE, TRUE, content)) :
                                 content \in DownloadedContents},
          now \in Instants :
           LoadData(cached, timestamp, download, now)
    \/ \E stanox \in SmartStations, max_hops \in 1..MaxHops :
           FindAdjacentStations(stanox, max_hops)
    \/ \E from_stanox \in SmartStations, to_stanox \in SmartStations,
          max_hops \in 1..MaxHops :
           GetBerthRoute(from_stanox, to_stanox, max_hops)

SpecSmart == InitSmart /\ [][NextSmart]_vars

-----------------------------------------------------------------------------
(* SpecTopology: the sensors are set up and the berth state follows the    *)
(* feed while the reference data are loaded, or are not                    *)

\* a step between two berths reported at a platform of a station
PlatformStep(from_berth, to_berth, stanox, platform) ==
    JDict([SmartRecord("SK", from_berth, to_berth, stanox).v
              EXCEPT !.PLATFORM = platform])

\* what the cache file holds: nothing; a record with every field blank; a
\* step at platform 1 of station 111; a record followed by a string
TopologyContents ==
    {NoCache,
     RenderArray(<<SmartRecord("", "", "", "")>>),
     RenderArray(<<PlatformStep("101", "102", "111", "1")>>),
     <<JList(<<StepAt("01", "02", "111"), JString("SMART")>>)>>}

\* a step, a cancel, an interpose and a heartbeat of area SK
TopologyMessages ==
    {CA_MSG("SK", "101", "102", "1A23"), CB_MSG("SK", "102", "1A23"),
     CC_MSG("SK", "101", "2J01"), CT_MSG("SK")}

TopologyOptions == [DefaultOptions EXCEPT !.enable_td = TRUE, !.td_areas = {"SK"}]

\* async_setup_entry of the sensors with the Train Describer enabled: the
\* history size of the options is set, and the platform mapping if the
\* reference data are available
SetupTd ==
    /\ options.enable_td
    /\ Len(calls) < MaxCalls
    /\ \A i \in 1..Len(calls) : calls[i].op # "async_setup_entry"
    /\ LET bs == set_event_history_size(BS, options.td_event_history_size)
           mapping == AreasPlatformMapping(EmptyDict, get_graph(smart),
                                           SetToSeq(options.td_areas))
       IN  /\ SetBS(IF is_available(smart)
                    THEN set_berth_to_platform_mapping(bs, mapping)
                    ELSE bs)
           /\ calls' = Append(calls, [op |-> "async_setup_entry",
                                      available |-> is_available(smart),
                                      graph |-> get_graph(smart)])
    /\ UNCHANGED hub_vars

\* the queries of smart_utils.py on the graph the manager holds
QueryTopology(berth_id, td_area, stanox, to_stanox, center_berth_keys, max_hops) ==
    /\ \E graph \in {get_graph(smart)} :
           smart' = [smart EXCEPT
                        !.answers =
                            [adjacent_berths |->
                                 get_adjacent_berths(graph, berth_id, td_area),
                             berths_for_stanox |->
                                 get_berths_for_stanox(graph, stanox),
                             adjacent_stations |->
                                 find_adjacent_stations_multihop(
                                     graph, center_berth_keys, stanox, max_hops),
                             berth_route |->
                                 get_berth_route(graph, stanox, to_stanox, max_hops),
                             platform_mapping |->
                                 get_berth_to_platform_mapping(graph, td_area)]]
    /\ SmartUnchanged

InitTopology == InitHub(TopologyOptions)

NextTopology ==
    \/ \E cached \in TopologyContents :
           LoadData(cached, None, Unauthorized, "t1")
    \/ SetupTd
    \/ \E m \in TopologyMessages : BerthUpdate(m)
    \/ \E berth_id \in {"01", "101"}, td_area \in {"SK", "G1"},
          center_berth_keys \in {{}, {"SK:01"}}, max_hops \in {1, MaxHops} :
           QueryTopology(berth_id, td_area, "111", "222", center_berth_keys, max_hops)

SpecTopology == InitTopology /\ [][NextTopology]_vars

-----------------------------------------------------------------------------
(* SpecWorker: the worker thread of the hub (_thread_main), the broker,    *)
(* the caller of async_stop and the event loop                             *)

\* a step of the worker that hands a callback to the event loop waits for
\* room in the queue
QueueHasRoom == Len(loop_calls) < MaxQueue

WorkerUnchanged ==
    UNCHANGED <<berth_vars, loop_state_vars, listener_vars, options, monotonic,
                sent, calls, td_log, received, consumer_vars>>

\* min(reconnect_delay * 2, 60) with the cap left out
next_reconnect_delay_Uncapped(reconnect_delay) == reconnect_delay * 2

\* min(reconnect_delay * 2, 60)
next_reconnect_delay(reconnect_delay) ==
    Min(reconnect_delay * 2, RECONNECT_DELAY_CAP)

\* the finally clause with a connection that stays connected
Finally_NoDisconnect(conn) == conn

\* the finally clause of the loop body: a connection that is connected is
\* disconnected
Finally(conn) == IF conn = "connected" THEN "disconnected" ELSE conn

\* after the finally clause: break if the stop flag is set, else sleep
AfterFinally(w, after) ==
    IF w.stop_evt
    THEN [w EXCEPT !.pc = "exited", !.conn = Finally(w.conn)]
    ELSE [w EXCEPT !.pc = "sleeping", !.conn = Finally(w.conn),
                   !.sleeping_for = w.reconnect_delay, !.after = after,
                   !.slept = "none"]

\* while not self._stop_evt.is_set(): the loop ends, or a connection is made
\* and conn.connect is called
WorkerLoopTop ==
    /\ worker.pc = "top"
    /\ worker' = IF worker.stop_evt
                 THEN [worker EXCEPT !.pc = "exited"]
                 ELSE [worker EXCEPT !.pc = "connecting", !.conn = "new"]
    /\ UNCHANGED <<loop_calls, last_error>>
    /\ WorkerUnchanged

\* the subscription ids of on_connected: the movement topic, the Train
\* Describer topic, the VSTP topic
SUB_MOVEMENT == 1
SUB_TD == 2
SUB_VSTP == 3

\* self._conn_ref.subscribe(destination=..., id=id, ...): the call is made,
\* and it returns or raises
Subscribe(attempts, id, outcome) ==
    Append(attempts, [id |-> id, raised |-> outcome[id] = "raises"])

\* a subscribe call raised: the try block of on_connected is left for its
\* except clause
SubscribeRaised(attempts) ==
    attempts # <<>> /\ attempts[Len(attempts)].raised

\* _Listener.on_connected after _set_connected(True): the subscribe calls it
\* makes, in one try block; outcome tells of each call whether it raises
on_connected_subscriptions(opts, outcome) ==
    LET s1 == Subscribe(<<>>, SUB_MOVEMENT, outcome)
        s2 == IF SubscribeRaised(s1) \/ ~opts.enable_td THEN s1
              ELSE Subscribe(s1, SUB_TD, outcome)
    IN  IF SubscribeRaised(s2) \/ ~opts.enable_vstp THEN s2
        ELSE Subscribe(s2, SUB_VSTP, outcome)

\* what can become of the subscribe calls
SubscribeOutcomes == [{SUB_MOVEMENT, SUB_TD, SUB_VSTP} -> {"returns", "raises"}]

\* conn.connect(..., wait=True) returns: the broker accepted, the listener's
\* on_connected ran (_set_connected(True), the subscribe calls), and the
\* polling loop is entered
ConnectSucceeds(outcome) ==
    /\ worker.pc = "connecting"
    /\ QueueHasRoom
    /\ worker' = [worker EXCEPT
                    !.pc = "connected", !.conn = "connected",
                    !.subscriptions = on_connected_subscriptions(options, outcome)]
    /\ loop_calls' = Append(loop_calls, [fn |-> "_update_connected",
                                         is_connected |-> TRUE])
    /\ UNCHANGED last_error
    /\ UNCHANGED <<berth_vars, loop_state_vars, listener_vars, options, monotonic,
                   sent, calls, td_log, received, consumer_vars>>

\* conn.connect raises: the except clause, the finally clause, the stop test
ConnectFails ==
    /\ worker.pc = "connecting"
    /\ QueueHasRoom
    /\ connected' = FALSE
    /\ last_error' = "ConnectFailedException"
    /\ loop_calls' = Append(loop_calls, [fn |-> "async_dispatcher_send",
                                         signal |-> DISPATCH_CONNECTED,
                                         args |-> <<FALSE>>])
    /\ worker' = AfterFinally(worker, "failed")
    /\ UNCHANGED <<berth_vars, last_movement, last_movement_per_station,
                   last_batch_count, last_seen_monotonic, last_td_message,
                   td_message_count, listener_vars, options, monotonic, sent, calls,
                   td_log, received, consumer_vars>>

\* the broker or the network ends the connection: the listener's
\* on_disconnected or on_heartbeat_timeout runs (_set_connected(False))
ConnectionLost ==
    /\ worker.pc = "connected"
    /\ worker.conn = "connected"
    /\ QueueHasRoom
    /\ worker' = [worker EXCEPT !.conn = "closed"]
    /\ loop_calls' = Append(loop_calls, [fn |-> "_update_connected",
                                         is_connected |-> FALSE])
    /\ UNCHANGED last_error
    /\ WorkerUnchanged

\* the polling loop ends (the stop flag is set or the connection is gone):
\* the finally clause, the stop test
SessionEnds ==
    /\ worker.pc = "connected"
    /\ worker.stop_evt \/ worker.conn # "connected"
    /\ worker' = AfterFinally(worker, "ended")
    /\ UNCHANGED <<loop_calls, last_error>>
    /\ WorkerUnchanged

\* how much of the delay of time.sleep(reconnect_delay) has passed: none of
\* it, a part of it, all of it
SleptMore(slept) == IF slept = "none" THEN "part" ELSE "all"

\* time passes while the worker is in time.sleep(reconnect_delay): the call
\* does not look at the stop flag
SleepPasses ==
    /\ worker.pc = "sleeping"
    /\ worker.slept # "all"
    /\ worker' = [worker EXCEPT !.slept = SleptMore(@)]
    /\ UNCHANGED <<loop_calls, last_error>>
    /\ WorkerUnchanged

\* time.sleep(reconnect_delay) returns, with the delay set back to the base
\* after a connection that succeeded
SleepReturns_ResetAfterSession ==
    /\ worker.pc = "sleeping"
    /\ worker.slept = "all"
    /\ worker' = [worker EXCEPT
                    !.pc = "top",
                    !.reconnect_delay = IF worker.after = "ended"
                                        THEN RECONNECT_DELAY_BASE
                                        ELSE next_reconnect_delay(@),
                    !.sleeping_for = 0,
                    !.slept = "none",
                    !.after = "none",
                    !.waits = Min(@ + 1, MaxWaits)]
    /\ UNCHANGED <<loop_calls, last_error>>
    /\ WorkerUnchanged

\* time.sleep(reconnect_delay) returns, the delay having passed;
\* reconnect_delay = min(... * 2, 60)
SleepReturns ==
    /\ worker.pc = "sleeping"
    /\ worker.slept = "all"
    /\ worker' = [worker EXCEPT
                    !.pc = "top",
                    !.reconnect_delay = next_reconnect_delay(@),
                    !.sleeping_for = 0,
                    !.slept = "none",
                    !.after = "none",
                    !.waits = Min(@ + 1, MaxWaits)]
    /\ UNCHANGED <<loop_calls, last_error>>
    /\ WorkerUnchanged

\* async_stop: the stop flag is set, and the thread is joined if it is alive
AsyncStop ==
    /\ worker.stop = "idle"
    /\ worker' = [worker EXCEPT
                    !.stop_evt = TRUE,
                    !.stop = IF worker.pc # "exited" THEN "joining" ELSE "returned"]
    /\ UNCHANGED <<loop_calls, last_error>>
    /\ WorkerUnchanged

\* self._thread.join(5) returns: the thread ended, or the five seconds passed
JoinReturns ==
    /\ worker.stop = "joining"
    /\ worker' = [worker EXCEPT !.stop = "returned",
                                !.joined = (worker.pc = "exited")]
    /\ UNCHANGED <<loop_calls, last_error>>
    /\ WorkerUnchanged

InitWorker == InitHub(DefaultOptions)

WorkerStep ==
    \/ WorkerLoopTop
    \/ \E outcome \in SubscribeOutcomes : ConnectSucceeds(outcome)
    \/ ConnectFails
    \/ SessionEnds
    \/ SleepPasses
    \/ SleepReturns

NextWorker ==
    \/ WorkerStep
    \/ ConnectionLost
    \/ AsyncStop
    \/ JoinReturns
    \/ LoopRun

SpecWorker == InitWorker /\ [][NextWorker]_vars

\* the worker thread and the event loop keep running, and the join ends
SpecWorkerFair ==
    /\ SpecWorker
    /\ WF_vars(WorkerStep)
    /\ WF_vars(JoinReturns)
    /\ WF_vars(LoopRun)

\* SpecSubscribe: the worker under each setting of the two feed switches
SubscribeOptions ==
    {[DefaultOptions EXCEPT !.enable_td = td, !.enable_vstp = vstp] :
        td \in BOOLEAN, vstp \in BOOLEAN}

InitSubscribe == \E opts \in SubscribeOptions : InitHub(opts)

SpecSubscribe == InitSubscribe /\ [][NextWorker]_vars

-----------------------------------------------------------------------------
(* Reading the call history *)

IsUpdate(c) == c.op = "update"
IsUpdateOf(c, types) == c.op = "update" /\ c.msg.msg_type \in types
IsResize(c) == c.op = "set_event_history_size"

\* the call made by the step, when the step made one
CallMade == Len(calls') = Len(calls) + 1
LastCall == calls'[Len(calls')]

\* the berth key a cancel clears and an interpose fills
CancelKey(m) == BerthKey(m.area_id, m.from_berth)
InterposeKey(m) == BerthKey(m.area_id, m.to_berth)

\* the berth events (CA, CB, CC) applied so far, oldest first
RECURSIVE BerthEventsOf(_)
BerthEventsOf(cs) ==
    IF cs = <<>> THEN <<>>
    ELSE LET rest == BerthEventsOf(SubSeq(cs, 1, Len(cs) - 1))
             c == cs[Len(cs)]
         IN  IF IsUpdateOf(c, {TD_MSG_CA, TD_MSG_CB, TD_MSG_CC})
             THEN Append(rest, c.msg) ELSE rest

\* the index of the last resize call, 0 when there was none
LastResizeIndex ==
    LET rs == {i \in 1..Len(calls) : IsResize(calls[i])}
    IN  IF rs = {} THEN 0 ELSE CHOOSE i \in rs : \A j \in rs : j <= i

\* what an event record and the message it was made from have in common
SameEvent(record, m) ==
    /\ record.msg_type = m.msg_type
    /\ record.area_id = m.area_id
    /\ record.timestamp = m.time
    /\ record.train_id = m.description
    /\ Get(record, "from_berth", None) = Get(m, "from_berth", None)
    /\ Get(record, "to_berth", None) = Get(m, "to_berth", None)

-----------------------------------------------------------------------------
(* Claims on the BerthState *)

\* C1 (as stated): a step (area, from, to, train, time) applied to a BerthState
\* with no occupied berth leaves get_berth(area, to) = {train, time} and
\* get_berth(area, from) = None, for every from and to.
C1_StepOnEmptyState_AsStated ==
    [][(CallMade /\ IsUpdateOf(LastCall, {TD_MSG_CA}) /\ DOMAIN berths = {})
        => LET m == LastCall.msg
           IN  /\ get_berth(BS', m.area_id, m.to_berth) = Occupant(m.description, m.time)
               /\ get_berth(BS', m.area_id, m.from_berth) = NoneDict]_vars

\* C1 (amended): a step applied to a BerthState with no occupied berth leaves
\* get_berth(area, to) = {train, time} and no other berth occupied; so
\* get_berth(area, from) = None exactly when from differs from to.
C1_StepOnEmptyState ==
    [][(CallMade /\ IsUpdateOf(LastCall, {TD_MSG_CA}) /\ DOMAIN berths = {})
        => LET m == LastCall.msg
           IN  /\ get_berth(BS', m.area_id, m.to_berth) = Occupant(m.description, m.time)
               /\ DOMAIN berths' = {BerthKey(m.area_id, m.to_berth)}
               /\ (m.from_berth # m.to_berth
                     => get_berth(BS', m.area_id, m.from_berth) = NoneDict)
               /\ (m.from_berth = m.to_berth
                     => get_berth(BS', m.area_id, m.from_berth)
                            = Occupant(m.description, m.time))]_vars

\* C1 witness: a step between two different berths was the first call on an
\* empty BerthState
C1_Witness ==
    /\ Len(calls) = 1
    /\ IsUpdateOf(calls[1], {TD_MSG_CA})
    /\ calls[1].msg.from_berth # calls[1].msg.to_berth
    /\ Cardinality(DOMAIN berths) = 1

\* C2: when the last event is a cancel on berth key K, an earlier event is an
\* interpose on K, and everything in between is a step whose from and to keys
\* both differ from K, then K is unoccupied.
C2_CancelAfterInterpose ==
    \A i \in 1..Len(calls) :
        LET j == Len(calls)
        IN  (/\ i < j
             /\ IsUpdateOf(calls[i], {TD_MSG_CC})
             /\ IsUpdateOf(calls[j], {TD_MSG_CB})
             /\ CancelKey(calls[j].msg) = InterposeKey(calls[i].msg)
             /\ \A k \in (i + 1)..(j - 1) :
                   /\ IsUpdateOf(calls[k], {TD_MSG_CA})
                   /\ BerthKey(calls[k].msg.area_id, calls[k].msg.from_berth)
                          # InterposeKey(calls[i].msg)
                   /\ BerthKey(calls[k].msg.area_id, calls[k].msg.to_berth)
                          # InterposeKey(calls[i].msg))
            => CancelKey(calls[j].msg) \notin DOMAIN berths

\* C2 witness: interpose on K, a step elsewhere, cancel on K
C2_Witness ==
    /\ Len(calls) = 3
    /\ IsUpdateOf(calls[1], {TD_MSG_CC})
    /\ IsUpdateOf(calls[2], {TD_MSG_CA})
    /\ IsUpdateOf(calls[3], {TD_MSG_CB})
    /\ CancelKey(calls[3].msg) = InterposeKey(calls[1].msg)
    /\ BerthKey(calls[2].msg.area_id, calls[2].msg.from_berth) # InterposeKey(calls[1].msg)
    /\ BerthKey(calls[2].msg.area_id, calls[2].msg.to_berth) # InterposeKey(calls[1].msg)
    /\ berths # EmptyDict

\* C5: once at least event_history_size berth events have been applied since
\* the size was configured (by the constructor or the last resize),
\* get_event_history() has exactly event_history_size records, and they are
\* the most recently applied events, oldest first.
C5_HistoryRingBuffer ==
    LET events == BerthEventsOf(calls)
        since == BerthEventsOf(SubSeq(calls, LastResizeIndex + 1, Len(calls)))
        size == get_event_history_size(BS)
        history == get_event_history(BS)
    IN  Len(since) >= size
        => /\ Len(history) = size
           /\ \A k \in 1..size :
                 SameEvent(history[k], events[Len(events) - size + k])

\* C5 witness: size + 1 events went into a buffer of size 2
C5_Witness ==
    /\ event_history_size = 2
    /\ LastResizeIndex = 0
    /\ Len(BerthEventsOf(calls)) = 3
    /\ Len(event_history) = 2
    /\ event_history[1] # event_history[2]

\* C6: set_event_history_size(n) sets the size to n clamped into 1..50 and
\* leaves the history equal to the last min(len, size) entries of the old
\* history in their order; the history never exceeds the configured size.
C6_Clamped(n) == IF n < 1 THEN 1 ELSE IF n > 50 THEN 50 ELSE n
C6_SetEventHistorySize ==
    /\ [](event_history_size \in 1..50 /\ Len(event_history) <= event_history_size)
    /\ [][(CallMade /\ IsResize(LastCall))
            => LET size == C6_Clamped(LastCall.size)
                   old == Len(event_history)
                   kept == IF old <= size THEN old ELSE size
               IN  /\ event_history_size' = size
                   /\ Len(event_history') = kept
                   /\ \A i \in 1..kept :
                         event_history'[i] = event_history[old - kept + i]]_vars

\* C6 witness: a resize cut a history of two different records down to one
C6_Witness ==
    /\ Len(calls) = 3
    /\ IsResize(calls[3])
    /\ Len(BerthEventsOf(calls)) = 2
    /\ ~SameEvent(event_history[1], calls[1].msg)
    /\ Len(event_history) = 1
    /\ event_history_size = 1

\* C8: applying a heartbeat (CT) or signalling (SF, SG, SH) message leaves the
\* berth map, the platform map and the event history unchanged.
C8_HeartbeatAndSignallingFrame ==
    [][(CallMade /\ IsUpdateOf(LastCall, {TD_MSG_CT, TD_MSG_SF, TD_MSG_SG, TD_MSG_SH}))
        => UNCHANGED <<berths, platform_state, event_history>>]_vars

\* C8 witness: a heartbeat or signalling message was applied to a BerthState
\* with an occupied berth, a platform record and a history
C8_Witness ==
    /\ Len(calls) >= 1
    /\ IsUpdateOf(calls[Len(calls)], {TD_MSG_CT, TD_MSG_SF, TD_MSG_SG, TD_MSG_SH})
    /\ berths # EmptyDict
    /\ platform_state # EmptyDict
    /\ event_history # <<>>

\* C7: nothing a caller assigns into a value returned by a query changes
\* what any query returns afterwards.
C7_QueriesReturnIndependentValues ==
    [][(CallMade /\ LastCall.op = "assign_through_result")
        => /\ \A a \in {"SK", "G1"} : \A b \in {"101", "102"} :
                 get_berth(BS', a, b) = get_berth(BS, a, b)
           /\ get_all_berths(BS') = get_all_berths(BS)
           /\ \A a \in {"SK", "G1"} : get_area_berths(BS', a) = get_area_berths(BS, a)
           /\ \A p \in {"1", "2A"} :
                 get_platform_state(BS', p) = get_platform_state(BS, p)
           /\ get_all_platform_states(BS') = get_all_platform_states(BS)
           /\ get_event_history(BS') = get_event_history(BS)]_vars

-----------------------------------------------------------------------------
(* Reading td_log *)

\* the entries of events that reached the rate limiter
Handled == {i \in 1..Len(td_log) : td_log[i].verdict \in {"accepted", "dropped"}}
Accepted == {i \in 1..Len(td_log) : td_log[i].verdict = "accepted"}
Dropped == {i \in 1..Len(td_log) : td_log[i].verdict = "dropped"}
Dispatched == {i \in 1..Len(td_log) : td_log[i].verdict = "dispatched"}

\* the rate window is empty when event i arrives: nothing was accepted in the
\* second before it
WindowEmptyAt(i) ==
    \A h \in Accepted : h < i => td_log[i].at - td_log[h].at >= TicksPerSecond

\* the events accepted, oldest first
IsAcceptedEntry(e) == e.verdict = "accepted"
AcceptedEvents(log) ==
    LET acc == SelectSeq(log, IsAcceptedEntry)
    IN  [k \in 1..Len(acc) |-> acc[k].ev]

\* the batches handed to the event loop so far, joined in order
RECURSIVE DispatchedEvents(_)
DispatchedEvents(log) ==
    IF log = <<>> THEN <<>>
    ELSE IF Head(log).verdict = "dispatched"
         THEN Head(log).batch \o DispatchedEvents(Tail(log))
         ELSE DispatchedEvents(Tail(log))

\* td_batch as the handler left it before entry i
PendingBefore(i) == IF i = 1 THEN <<>> ELSE td_log[i - 1].pending

\* C3: with maxMessagesPerSecond = N and an empty rate window, of n events
\* that pass parsing and the area filter and are handled within one second
\* exactly min(n, N) are accepted into the batch and the other n - N are
\* dropped; td_dropped_count counts every drop, and every accepted event is
\* in a dispatched batch or in the pending one.
C3_RateLimiter ==
    LET N == options.td_max_messages_per_second
    IN  /\ \A i \in Handled : \A j \in Handled :
              (/\ i <= j
               /\ WindowEmptyAt(i)
               /\ td_log[j].at - td_log[i].at < TicksPerSecond)
              => LET n == Cardinality(Handled \cap (i..j))
                 IN  /\ Cardinality(Accepted \cap (i..j)) = Min(n, N)
                     /\ Cardinality(Dropped \cap (i..j)) = Max(0, n - N)
        /\ td_dropped_count = Cardinality(Dropped)
        /\ AcceptedEvents(td_log) = DispatchedEvents(td_log) \o td_batch

\* C3 witness: with N >= 2, N + 1 events were handled within one second of
\* an empty window, and the last of them was dropped
C3_Witness ==
    /\ options.td_max_messages_per_second >= 2
    /\ \E i \in Handled : \E j \in Dropped :
          /\ i < j
          /\ WindowEmptyAt(i)
          /\ td_log[j].at - td_log[i].at < TicksPerSecond
          /\ Cardinality(Handled \cap (i..j)) = options.td_max_messages_per_second + 1
          /\ td_dropped_count = 1

\* the first b accepted entries from entry i on, or the empty set if there
\* are fewer
FirstAccepted(i, b) ==
    LET from == {k \in Accepted : k >= i}
        first == {k \in from : Cardinality({m \in from : m <= k}) <= b}
    IN  IF Cardinality(first) = b THEN first ELSE {}

\* the greatest element of a non-empty set of indices
Greatest(S) == CHOOSE k \in S : \A m \in S : m <= k

\* C4: with maxBatchSize = B and an empty pending batch, when B events are
\* accepted and the elapsed-time trigger fires for none of them, one batch is
\* dispatched, on the B-th event; it holds the B events in arrival order, and
\* the pending batch is empty after it.
C4_BatchDispatch ==
    LET B == options.td_max_batch_size
        NoTimeTrigger(k) ==
            td_log[k].since < options.td_update_interval * TicksPerSecond
    IN  \A i \in Accepted :
            (/\ PendingBefore(i) = <<>>
             /\ FirstAccepted(i, B) # {}
             /\ \A k \in FirstAccepted(i, B) : NoTimeTrigger(k))
            => LET last == Greatest(FirstAccepted(i, B))
               IN  /\ Dispatched \cap (i..last) = {}
                   /\ last + 1 \in Dispatched
                   /\ td_log[last + 1].batch =
                          AcceptedEvents(SubSeq(td_log, i, last))
                   /\ Len(td_log[last + 1].batch) = B
                   /\ td_log[last + 1].pending = <<>>
                   /\ (last + 1 = Len(td_log) => td_batch = <<>>)

\* C4 witness: B >= 2 events were accepted with no time trigger, the batch
\* was dispatched on the last of them, and it is waiting for the event loop
C4_Witness ==
    /\ options.td_max_batch_size >= 2
    /\ Len(td_log) = options.td_max_batch_size + 1
    /\ \A k \in 1..(Len(td_log) - 1) :
          /\ td_log[k].verdict = "accepted"
          /\ td_log[k].since < options.td_update_interval * TicksPerSecond
    /\ td_log[Len(td_log)].verdict = "dispatched"
    /\ td_batch = <<>>
    /\ loop_calls # <<>>
    /\ loop_calls[1] = [fn |-> "_update_td_batch",
                        batch |-> AcceptedEvents(td_log)]

-----------------------------------------------------------------------------
(* Reading the event loop's step *)

\* the step is the event loop running _update_td_batch
RunsTdBatch ==
    /\ loop_calls # <<>>
    /\ Head(loop_calls).fn = "_update_td_batch"
    /\ loop_calls' = Tail(loop_calls)

\* the sends of a callback whose signal is the given one
SendsOf(sends, signal) == {i \in 1..Len(sends) : sends[i].signal = signal}

\* the last message of the batch whose area_id is the given one
LastOfArea(batch, area_id) ==
    batch[Greatest({i \in 1..Len(batch) : Get(batch[i], "area_id", None) = area_id})]

\* the sends are one global TD notification and, for each of the areas, one
\* area notification that carries the last message of the area in the batch
OnePerArea(batch, sends, areas) ==
    /\ Cardinality(SendsOf(sends, DISPATCH_TD)) = 1
    /\ \A a \in areas :
          /\ Cardinality(SendsOf(sends, DISPATCH_TD \o "_" \o a)) = 1
          /\ \A i \in SendsOf(sends, DISPATCH_TD \o "_" \o a) :
                sends[i].args = <<LastOfArea(batch, a)>>
    /\ Len(sends) = 1 + Cardinality(areas)

\* the area_id values that occur in a batch
AreaIdsOf(batch) == {Get(batch[i], "area_id", None) : i \in 1..Len(batch)}

\* C9 as stated: each dispatched batch produces one global TD notification
\* and one area notification for each distinct area_id occurring in it, the
\* notification carrying the last message of that area in the batch.
C9_OneNotificationPerArea_AsStated ==
    [][RunsTdBatch =>
          LET batch == Head(loop_calls).batch
          IN  OnePerArea(batch, sent', AreaIdsOf(batch))]_vars

\* C9: each dispatched batch produces one global TD notification and one area
\* notification for each distinct non-empty area_id occurring in it, the
\* notification carrying the last message of that area in the batch; an
\* area_id that is empty or None gets no area notification.
C9_OneNotificationPerArea ==
    [][RunsTdBatch =>
          LET batch == Head(loop_calls).batch
          IN  OnePerArea(batch, sent', {a \in AreaIdsOf(batch) : Truthy(a)})]_vars

\* C9 witness: the event loop ran a batch of three messages, two of area SK
\* around one with an empty area_id: one global notification and one for SK,
\* which carries the later SK message
C9_Witness ==
    /\ td_message_count = 3
    /\ last_td_message = parse_td_message(EvCancel)
    /\ ":101" \in DOMAIN berths
    /\ sent = <<[signal |-> DISPATCH_TD, args |-> <<parse_td_message(EvCancel)>>],
                [signal |-> DISPATCH_TD \o "_SK",
                 args |-> <<parse_td_message(EvCancel)>>]>>

-----------------------------------------------------------------------------
(* Reading the listener's step *)

\* the step is on_message receiving a frame
Receives == Len(received') = Len(received) + 1
ReceivedBody == received'[Len(received')].body

\* the callbacks the step handed to the event loop
NewCalls == SubSeq(loop_calls', Len(loop_calls) + 1, Len(loop_calls'))
NewCallsAre(fns) == \A i \in 1..Len(NewCalls) : NewCalls[i].fn \in fns

\* the shapes of a frame body
IsJsonObject(body) == body # NonJson /\ IsDict(body)
IsVstpSchedule(body) == IsJsonObject(body) /\ ObjectHas(body, "JsonScheduleV1")
IsTdMessage(body) == IsJsonObject(body) /\ parse_td_message(body) # NoneDict
IsTdList(body) ==
    /\ body # NonJson
    /\ IsList(body)
    /\ body.l # <<>>
    /\ IsDict(body.l[1])
    /\ \E i \in 1..Len(body.l[1].e) : EndsWith(body.l[1].e[i].k, "_MSG")

\* _handle_td_message returns True for the item: it is a TD message, or an
\* area filter is set and the item names none of its areas
HandledAsTd(item, opts) ==
    /\ IsDict(item)
    /\ \/ opts.td_areas # {} /\ ~HasAreaMatch(item, opts.td_areas)
       \/ parse_td_message(item) # NoneDict

\* the TD messages among the items that pass the area filter
TdEventsOf(items, opts) ==
    {i \in 1..Len(items) :
        /\ IsDict(items[i])
        /\ parse_td_message(items[i]) # NoneDict
        /\ (opts.td_areas # {} => HasAreaMatch(items[i], opts.td_areas))
        /\ apply_td_filters(parse_td_message(items[i]), opts.td_areas, {})}

\* a VSTP schedule is consumed as one, whatever else it holds; an object
\* that is a TD message and no VSTP schedule is consumed as a TD message
ObjectsByPriority ==
    /\ IsVstpSchedule(ReceivedBody) =>
          /\ NewCallsAre({"_update_vstp_message"})
          /\ UNCHANGED <<listener_vars, td_log>>
    /\ (IsTdMessage(ReceivedBody) /\ ~IsVstpSchedule(ReceivedBody)) =>
          /\ NewCallsAre({"_update_td_batch"})
          /\ Len(td_log') > Len(td_log)

\* a list taken as a TD list reaches the rate limiter with each of its TD
\* messages and hands no movement to the event loop
ListAsTd ==
    /\ NewCallsAre({"_update_td_batch", "_update_seen"})
    /\ Cardinality({i \in 1..Len(td_log') :
                       i > Len(td_log) /\ td_log'[i].verdict \in {"accepted", "dropped"}})
           = Cardinality(TdEventsOf(ReceivedBody.l, options))

\* a list whose first element has no *_MSG key is a movement batch: none of
\* its items reaches the TD handler
ListAsMovements ==
    /\ NewCallsAre({"_update_seen", "_update_movement"})
    /\ UNCHANGED <<listener_vars, td_log>>

\* C10 as stated: frames are classified VSTP schedule, then TD message, then
\* movement batch, the first that succeeds consuming the frame; a list whose
\* first element has a key ending in _MSG is iterated as TD messages and is
\* not processed as movement records.
C10_ClassificationPriority_AsStated ==
    [][Receives =>
          /\ ObjectsByPriority
          /\ IsTdList(ReceivedBody) => ListAsTd
          /\ (ReceivedBody # NonJson /\ IsList(ReceivedBody) /\ ~IsTdList(ReceivedBody))
                => ListAsMovements]_vars

\* C10: frames are classified VSTP schedule, then TD message, then movement
\* batch, the first that succeeds consuming the frame; a list whose first
\* element has a key ending in _MSG is iterated as TD messages, and it is not
\* processed as movement records if _handle_td_message handled at least one
\* of its elements.
C10_ClassificationPriority ==
    [][Receives =>
          /\ ObjectsByPriority
          /\ (/\ IsTdList(ReceivedBody)
              /\ \E i \in 1..Len(ReceivedBody.l) :
                    HandledAsTd(ReceivedBody.l[i], options))
                => ListAsTd
          /\ (ReceivedBody # NonJson /\ IsList(ReceivedBody) /\ ~IsTdList(ReceivedBody))
                => ListAsMovements]_vars

\* C10 witness: the listener received an object that is a VSTP schedule and
\* holds a TD message, then a list of a TD message and a movement; the first
\* went to the VSTP manager alone, the second to the TD handler alone
C10_Witness ==
    /\ Len(received) = 2
    /\ received[1].body = VstpAndTd
    /\ received[1].vstp_outcome = "published"
    /\ received[2].body = JList(<<EvStep, MvArrival>>)
    /\ Len(td_log) >= 1
    /\ \A i \in 1..Len(td_log) : td_log[i].at = received[2].at
    /\ loop_calls # <<>>
    /\ loop_calls[1].fn = "_update_vstp_message"
    /\ \A i \in 1..Len(loop_calls) : loop_calls[i].fn # "_update_movement"

-----------------------------------------------------------------------------
(* Reading a movement batch *)

\* the frame received is a non-empty list that is no TD list
ReceivesMovementBatch ==
    /\ Receives
    /\ ReceivedBody # NonJson
    /\ IsList(ReceivedBody)
    /\ ReceivedBody.l # <<>>
    /\ ~IsTdList(ReceivedBody)

\* the fields of a movement record, as text
MovementField(item, field) == Get(SectionOf(item, "body"), field, "")

\* the tracked-station set: the legacy filter and the codes of the
\* configured stations together
UnionOfFilters(opts) ==
    ({Strip(opts.stanox_filter)}
     \cup {Strip(opts.stations[i].stanox) : i \in 1..Len(opts.stations)}) \ {""}

\* the items of a batch that pass the three filters
PassingItems(items, opts) ==
    {i \in 1..Len(items) :
        /\ IsMovementItem(items[i])
        /\ \/ UnionOfFilters(opts) = {}
           \/ MovementField(items[i], "loc_stanox") \in UnionOfFilters(opts)
        /\ \/ Strip(opts.toc_filter) = ""
           \/ MovementField(items[i], "toc_id") = Strip(opts.toc_filter)
        /\ \/ opts.event_types = {}
           \/ MovementField(items[i], "event_type") \in opts.event_types}

\* the location codes of a set of items of a batch
LocationCodes(items, S) ==
    {MovementField(items[i], "loc_stanox") : i \in S} \ {""}

\* the _update_movement calls among the callbacks the step queued
NewMovementCalls == {i \in 1..Len(NewCalls) : NewCalls[i].fn = "_update_movement"}

\* C11: a movement record (msg_type 0003) is accepted if and only if the
\* tracked-station set is empty or contains its loc_stanox, the TOC filter is
\* empty or equals its toc_id, and the event-type filter is empty or contains
\* its event_type; the tracked-station set is the union of the legacy filter
\* and the stanox codes of the configured stations.  What on_message hands on
\* counts exactly the passing records and carries the last of them.
C11_MovementFilter ==
    [][ReceivesMovementBatch =>
          LET items == ReceivedBody.l
              passing == PassingItems(items, options)
          IN  /\ passing = {} => NewMovementCalls = {}
              /\ passing # {} =>
                    /\ Cardinality(NewMovementCalls) = 1
                    /\ \A c \in NewMovementCalls :
                          /\ NewCalls[c].kept = Cardinality(passing)
                          /\ NewCalls[c].movement = items[Greatest(passing)]
                          /\ {NewCalls[c].station_movements[k].k :
                                 k \in 1..Len(NewCalls[c].station_movements)}
                                = LocationCodes(items, passing)]_vars

\* C11 witness: with the legacy filter and a configured station both set, a
\* batch of three movements was received of which the two at the tracked
\* stations were accepted
C11_Witness ==
    /\ Strip(options.stanox_filter) # ""
    /\ options.stations # <<>>
    /\ Len(received) = 1
    /\ received[1].body = JList(<<MvDeparture, MvNoStanox, MvArrival>>)
    /\ Len(loop_calls) = 2
    /\ loop_calls[2].fn = "_update_movement"
    /\ loop_calls[2].kept = 2
    /\ loop_calls[2].movement = MvArrival

\* the step is the event loop running the callback at the head of its queue
RunsCall(fn) ==
    /\ loop_calls # <<>>
    /\ Head(loop_calls).fn = fn
    /\ loop_calls' = Tail(loop_calls)

\* the last of the items in S at the location code s
LastAt(items, S, s) ==
    items[Greatest({i \in S : MovementField(items[i], "loc_stanox") = s})]

\* C12: for every movement batch the global movement signal is published once
\* if at least one movement was accepted and not at all otherwise, a station
\* signal is published for exactly the location codes of the accepted
\* movements, and after the publication last_movement_per_station[s] is the
\* last accepted movement of the batch at station s.
C12_MovementPublication ==
    [][
        /\ ReceivesMovementBatch =>
             LET items == ReceivedBody.l
                 passing == PassingItems(items, options)
             IN  /\ Cardinality(NewMovementCalls) = (IF passing = {} THEN 0 ELSE 1)
                 /\ \A c \in NewMovementCalls :
                       LET sm == NewCalls[c].station_movements
                       IN  /\ {sm[k].k : k \in 1..Len(sm)} = LocationCodes(items, passing)
                           /\ \A k \in 1..Len(sm) :
                                 /\ sm[k].v = LastAt(items, passing, sm[k].k)
                                 /\ \A j \in 1..Len(sm) : sm[j].k = sm[k].k => j = k
        /\ RunsCall("_update_movement") =>
             LET sm == Head(loop_calls).station_movements
                 codes == {sm[k].k : k \in 1..Len(sm)}
             IN  /\ Cardinality(SendsOf(sent', DISPATCH_MOVEMENT)) = 1
                 /\ \A s \in codes :
                       Cardinality(SendsOf(sent', DISPATCH_MOVEMENT \o "_" \o s)) = 1
                 /\ Len(sent') = 1 + Cardinality(codes)
                 /\ \A k \in 1..Len(sm) : last_movement_per_station'[sm[k].k] = sm[k].v
        /\ RunsCall("_update_seen") => sent' = <<>>]_vars

\* C12 witness: a batch with two accepted movements at station 88487 was
\* published: one global signal, one for 88487, and the station's last
\* movement is the later of the two
C12_Witness ==
    /\ Len(received) = 1
    /\ received[1].body = JList(<<MvArrival, MvSecond, Activation>>)
    /\ last_batch_count = 2
    /\ sent = <<[signal |-> DISPATCH_MOVEMENT, args |-> <<>>],
                [signal |-> DISPATCH_MOVEMENT \o "_88487", args |-> <<>>]>>
    /\ last_movement = MvSecond
    /\ last_movement_per_station = ("88487" :> MvSecond)

-----------------------------------------------------------------------------
(* Reading the worker thread *)

RECURSIVE TwoToThe(_)
TwoToThe(n) == IF n = 0 THEN 1 ELSE 2 * TwoToThe(n - 1)

\* C13: the delay the worker waits before a reconnect attempt starts at the
\* base delay of 5 s, is doubled for each failed connection attempt, and
\* never exceeds the cap of 60 s.  (The code doubles it after every wait, the
\* waits that follow a connection that ended included.)
C13_ReconnectBackoff ==
    /\ [](/\ worker.reconnect_delay >= RECONNECT_DELAY_BASE
          /\ worker.reconnect_delay <= RECONNECT_DELAY_CAP
          /\ worker.waits < MaxWaits =>
                worker.reconnect_delay =
                    Min(RECONNECT_DELAY_BASE * TwoToThe(worker.waits),
                        RECONNECT_DELAY_CAP)
          /\ worker.pc = "sleeping" => worker.sleeping_for = worker.reconnect_delay)
    /\ [][(worker.pc = "sleeping" /\ worker.after = "failed" /\ worker'.pc = "top")
             => worker'.reconnect_delay =
                    Min(2 * worker.reconnect_delay, RECONNECT_DELAY_CAP)]_vars

\* C13 witness: after four waits the worker sleeps the capped delay after a
\* failed attempt, where doubling would give 80 s
C13_Witness ==
    /\ worker.pc = "sleeping"
    /\ worker.after = "failed"
    /\ worker.waits = 4
    /\ worker.sleeping_for = RECONNECT_DELAY_CAP

-----------------------------------------------------------------------------
(* Reading the track section sensor                                        *)

\* the berth key of an event's source or destination berth, None without one
EventBerthKey(m, field) ==
    IF Truthy(Get(m, field, None))
    THEN Get(m, "area_id", None) \o ":" \o Get(m, field, None)
    ELSE None

\* the sensor takes the event: its area is one the section is set up for and
\* it carries a train description
SectionTakes(sec, m) ==
    /\ sec.td_areas = {} \/ Get(m, "area_id", None) \in sec.td_areas
    /\ Truthy(Get(m, "description", None))

\* what the tracked map holds after event m, given the map before it
TrackedAfter(sec, m, before, after) ==
    LET descr == Get(m, "description", None)
        from_key == EventBerthKey(m, "from_berth")
        to_key == EventBerthKey(m, "to_berth")
        from_in == from_key \in sec.section_berths
        to_in == to_key \in sec.section_berths
        is_step == Get(m, "msg_type", None) = "CA"
        is_interpose == Get(m, "msg_type", None) = "CC"
    IN  /\ ((is_step /\ to_in /\ ~from_in) \/ (is_interpose /\ to_in))
              => /\ descr \in DOMAIN after
                 /\ after[descr].current_berth = to_key
        /\ (is_step /\ from_in /\ ~to_in) => descr \notin DOMAIN after
        /\ (is_step /\ from_in /\ to_in)
              => /\ descr \in DOMAIN after
                 /\ after[descr].current_berth = to_key
                 /\ after[descr].berths_visited # <<>>
                 /\ after[descr].berths_visited[Len(after[descr].berths_visited)] = to_key
                 /\ descr \in DOMAIN before
                      => after[descr].berths_visited
                           = Append(before[descr].berths_visited, to_key)

\* C15: for every step or interpose event the hub delivers to the track
\* section sensor (an event of an area the section is set up for, with a train
\* description): a step from outside the monitored berths into them, or an
\* interpose into a monitored berth, leaves the train in the tracked map with
\* current_berth the destination; a step from a monitored berth to one outside
\* leaves the train out of the map; a step between monitored berths leaves the
\* train in the map with the destination as current_berth and appended to
\* berths_visited.
C15_SectionTracking ==
    [][
        (section # NoSection /\ RunsCall("_update_td_batch"))
            => \A i \in SendsOf(sent', DISPATCH_TD) :
                   SectionTakes(section, sent'[i].args[1])
                       => TrackedAfter(section, sent'[i].args[1],
                                       section.trains_in_section,
                                       section'.trains_in_section)
    ]_vars


-----------------------------------------------------------------------------
(* Reading the searches of the reference data                              *)

\* the berth keys of a list of connections
ConnKeys(conns) ==
    {SmartBerthKey(conns[i].td_area, conns[i].berth) : i \in 1..Len(conns)}

\* the connections of a berth in one direction
ConnsOf(graph, berth_key, direction) ==
    Get(Get(Get(graph, "berth_to_connections", EmptyDict), berth_key, EmptyDict),
        direction, <<>>)

\* the berths one hop from a berth of S, the edges followed in the given
\* directions
OneHop(graph, S, directions) ==
    UNION {ConnKeys(ConnsOf(graph, b, d)) : b \in S, d \in directions}

\* the berths that a walk of exactly k hops from a berth of S ends in
RECURSIVE HopsAway(_, _, _, _)
HopsAway(graph, S, k, directions) ==
    IF k = 0 THEN S ELSE OneHop(graph, HopsAway(graph, S, k - 1, directions), directions)

\* d is the least number of hops, not below least, of a walk from a berth of
\* S to a berth of T
IsLeastHops(graph, S, T, d, least, directions) ==
    /\ d >= least
    /\ HopsAway(graph, S, d, directions) \cap T # {}
    /\ \A k \in least..(d - 1) : HopsAway(graph, S, k, directions) \cap T = {}

\* the berths that berth_to_stanox maps to the station
BerthsMappedTo(graph, stanox) ==
    {b \in DOMAIN Get(graph, "berth_to_stanox", EmptyDict) :
        graph.berth_to_stanox[b] = stanox}

\* the berths of the records of the station
BerthsOfRecords(graph, stanox) ==
    LET keys == RecordBerthKeys(Get(Get(graph, "stanox_to_berths", EmptyDict),
                                    stanox, <<>>))
    IN  {keys[i] : i \in 1..Len(keys)}

BothDirections == {"from", "to"}

\* the result of the last search for adjacent stations gives every station
\* it returns at the least number of hops, counted from least, and leaves
\* the seed station out
AdjacentAtLeastHops(least) ==
    smart.adjacent # NoneDict
        => /\ smart.adjacent.stanox \notin DOMAIN smart.adjacent.result
           /\ \A s \in DOMAIN smart.adjacent.result :
                  IsLeastHops(smart.graph,
                              BerthsOfRecords(smart.graph, smart.adjacent.stanox),
                              BerthsMappedTo(smart.graph, s),
                              smart.adjacent.result[s], least, BothDirections)

C17_BerthRoute ==
    smart.route # NoneDict
        => LET route == smart.route.result
               origin == BerthsOfRecords(smart.graph, smart.route.from_stanox)
               destination == BerthsOfRecords(smart.graph, smart.route.to_stanox)
           IN  \A d \in 0..smart.route.max_hops :
                   IsLeastHops(smart.graph, origin, destination, d, 0, {"to"})
                       => /\ route # <<>>
                          /\ Len(route) = d + 1
                          /\ route[1].berth_key \in origin
                          /\ route[Len(route)].berth_key \in destination
                          /\ \A i \in 1..(Len(route) - 1) :
                                 route[i + 1].berth_key
                                     \in OneHop(smart.graph, {route[i].berth_key}, {"to"})


-----------------------------------------------------------------------------
(* Reading the loads of the reference data                                 *)

\* whether one of the four readings of a content gives at least one record:
\* a JSON array of records, an object whose BERTHDATA is an array of records,
\* any other single object, or, for a content that is no JSON value as a
\* whole, lines of JSON of which at least one is an object
SomeAttemptYields(content) ==
    LET whole == json_loads(content)
        lines == StripBlankLines(content)
        is_wrapper == /\ whole.ok
                      /\ IsDict(whole.value)
                      /\ "BERTHDATA" \in DOMAIN whole.value.v
                      /\ IsList(whole.value.v["BERTHDATA"])
    IN  \/ whole.ok /\ IsList(whole.value) /\ whole.value.l # <<>>
        \/ is_wrapper /\ whole.value.v["BERTHDATA"].l # <<>>
        \/ whole.ok /\ IsDict(whole.value) /\ ~is_wrapper
        \/ /\ ~whole.ok
           /\ \A i \in 1..Len(lines) : lines[i] # NotJsonLine
           /\ \E i \in 1..Len(lines) : lines[i] # BlankLine /\ IsDict(lines[i])

\* C18: the parse of a content reports failure exactly when none of the four
\* readings of it gives a record, and whenever the parse, load_data or
\* refresh_data reports success at least one record is held and
\* is_available() is true.
C18_ParseFailsOnlyWithoutRecords ==
    (smart.last # NoneDict /\ smart.last.content # NoContent)
        => /\ ~smart.last.parse_ok <=> ~SomeAttemptYields(smart.last.content)
           /\ smart.last.parse_ok => is_available(smart)
           /\ smart.last.ok => is_available(smart)

\* the three renderings of a list of records
Renderings(records) ==
    {RenderArray(records), RenderWrapper(records), RenderNdjson(records)}

\* a load of one rendering of a list of records, then a load of another or of
\* the same: both report success and the second leaves the graph of the first
SameGraphFor(lists) ==
    \A records \in lists :
        (/\ smart.last # NoneDict
         /\ smart'.last # NoneDict
         /\ smart.last.content \in Renderings(records)
         /\ smart'.last.content \in Renderings(records))
            => /\ smart.last.ok
               /\ smart'.last.ok
               /\ smart'.data = smart.data
               /\ smart'.graph = smart.graph

\* C19 as stated: for every list of connectivity records, the list without
\* records included, the loads of its JSON array, of its BERTHDATA wrapper and
\* of its newline-delimited rendering all succeed and give the same graph.
C19_RenderingsAgree_AsStated == [][SameGraphFor(SmartRecordLists)]_vars

\* C19: for every list of at least one connectivity record, the loads of its
\* JSON array, of its BERTHDATA wrapper and of its newline-delimited rendering
\* all succeed and give the same graph.
C19_RenderingsAgree == [][SameGraphFor(SmartRecordLists \ {<<>>})]_vars

\* the newline-delimited rendering of a list of seven records is loaded and
\* gives a graph with the connections of berth 05
C19_Witness ==
    /\ smart.last # NoneDict
    /\ smart.last.ok
    /\ Len(smart.last.content) = 7
    /\ smart.last.content \in {RenderNdjson(records) : records \in SmartRecordLists}
    /\ "SK:05" \in DOMAIN Get(smart.graph, "berth_to_connections", EmptyDict)


-----------------------------------------------------------------------------
(* Reading a frame that holds no message of the feeds *)

\* a movement of the feed: an object whose header is an object that gives
\* msg_type 0003
IsMovementMessage(item) ==
    /\ IsDict(item)
    /\ IsDict(ObjectGet(item, "header"))
    /\ Get(ObjectGet(item, "header").v, "msg_type", None) = "0003"

\* the body is JSON of a recognised shape: a VSTP schedule, a TD message, or
\* a list that holds a TD message or a movement
IsRecognised(body) ==
    \/ IsVstpSchedule(body)
    \/ IsTdMessage(body)
    \/ /\ body # NonJson
       /\ IsList(body)
       /\ \E i \in 1..Len(body.l) :
             IsTdMessage(body.l[i]) \/ IsMovementMessage(body.l[i])

\* the callbacks the step handed to the event loop only note that a frame was
\* seen: run from the present state, each sends nothing and leaves the berth
\* state, the last movements and the TD counters as they are
OnlyNotesSeen ==
    /\ NewCallsAre({"_update_seen"})
    /\ \A i \in 1..Len(NewCalls) :
          \E hs \in {RunCall(HS, NewCalls[i], monotonic)} :
              /\ hs.sent = <<>>
              /\ hs.bs = BS
              /\ hs.last_movement = last_movement
              /\ hs.last_movement_per_station = last_movement_per_station
              /\ hs.last_td_message = last_td_message
              /\ hs.td_message_count = td_message_count

\* on_message returned without an exception
Returned == ~received'[Len(received')].raised

\* C20: a received frame whose body is not JSON, or is JSON of an
\* unrecognised shape (no VSTP schedule, no TD message, no non-empty array
\* of movements), is skipped: the berth and platform state, the event
\* history, the pending TD batch, the rate window, the drop counter and the
\* last movement are unchanged, nothing is published to movement or TD
\* observers, and on_message returns, so that the next frame is processed
\* from the same state.
C20_UnrecognisedFrameSkipped ==
    [][(Receives /\ ~IsRecognised(ReceivedBody)) =>
          /\ UNCHANGED <<berth_vars, loop_state_vars, listener_vars, sent>>
          /\ OnlyNotesSeen
          /\ Returned]_vars


-----------------------------------------------------------------------------
(* Reading a refresh of the reference data that is refused *)

\* the step is refresh_data, and the proxy answered it with 401
RefreshUnauthorized ==
    /\ smart' # smart
    /\ smart'.last # NoneDict
    /\ smart'.last.op = "refresh_data"
    /\ smart'.last.unauthorized

\* C21: when the reference-data fetch is answered with 401, refresh_data
\* returns False and leaves the records loaded before, the graph and the
\* last-updated timestamp unchanged.
C21_UnauthorizedRefresh ==
    [][RefreshUnauthorized =>
          /\ ~smart'.last.ok
          /\ smart'.data = smart.data
          /\ smart'.graph = smart.graph
          /\ smart'.last_updated = smart.last_updated]_vars

\* C21 witness: records and a graph were loaded at t1, and the refresh that
\* followed was answered with 401
C21_Witness ==
    /\ smart.last # NoneDict
    /\ smart.last.op = "refresh_data"
    /\ smart.last.unauthorized
    /\ ~smart.last.ok
    /\ Len(smart.data) = 7
    /\ "SK:05" \in DOMAIN Get(smart.graph, "berth_to_connections", EmptyDict)
    /\ smart.last_updated = "t1"


-----------------------------------------------------------------------------
(* Reading the area filter *)

\* the filter is empty or holds the event's area_id
PassesAreaFilter(ev, F) == F = {} \/ Get(ev, "area_id", None) \in F

\* the TD events of the items of a frame, in their order
RECURSIVE ParsedEventsOf(_)
ParsedEventsOf(items) ==
    IF items = <<>> THEN <<>>
    ELSE LET parsed == parse_td_message(Head(items))
         IN  (IF parsed = NoneDict THEN <<>> ELSE <<parsed>>)
                 \o ParsedEventsOf(Tail(items))

\* the TD events of the frames received, in the order of their arrival
RECURSIVE ReceivedEvents(_)
ReceivedEvents(frames) ==
    IF frames = <<>> THEN <<>>
    ELSE ParsedEventsOf(IF Head(frames).body = NonJson THEN <<>>
                        ELSE IF IsList(Head(frames).body) THEN Head(frames).body.l
                        ELSE <<Head(frames).body>>)
             \o ReceivedEvents(Tail(frames))

\* those of the events that pass the filter
RECURSIVE PassingEvents(_, _)
PassingEvents(events, F) ==
    IF events = <<>> THEN <<>>
    ELSE (IF PassesAreaFilter(Head(events), F) THEN <<Head(events)>> ELSE <<>>)
             \o PassingEvents(Tail(events), F)

\* the events that reached the rate limiter, in their order
RECURSIVE LimitedEvents(_)
LimitedEvents(log) ==
    IF log = <<>> THEN <<>>
    ELSE (IF Head(log).verdict \in {"accepted", "dropped"} THEN <<Head(log).ev>>
          ELSE <<>>) \o LimitedEvents(Tail(log))

\* the berth key names one of the areas
KeyInAreas(key, F) == \E a \in F : StartsWith(key, a \o ":")

\* C22: a parsed TD event passes the area filter if and only if the filter is
\* empty or contains the event's area_id: the events that reach the rate
\* limiter are those of the received events that do.  With a non-empty
\* filter F, every event in the pending batch and every occupied berth key
\* belongs to an area in F.
C22_AreaFilter ==
    /\ LimitedEvents(td_log) = PassingEvents(ReceivedEvents(received), options.td_areas)
    /\ options.td_areas # {} =>
          /\ \A i \in 1..Len(td_batch) :
                Get(td_batch[i], "area_id", None) \in options.td_areas
          /\ \A key \in DOMAIN berths : KeyInAreas(key, options.td_areas)

\* C22 witness: under the filter {SK} the object whose first event is in G1
\* and a step in SK were received; the step alone reached the batch and
\* occupies a berth
C22_Witness ==
    /\ options.td_areas = {"SK"}
    /\ Len(received) = 2
    /\ received[1].body = EvTwoAreas
    /\ received[2].body = EvStep
    /\ LimitedEvents(td_log) = <<parse_td_message(EvStep)>>
    /\ DOMAIN berths = {"SK:102"}


-----------------------------------------------------------------------------
(* Reading the pending batch over time *)

\* events are pending, and the batch is full or the update interval has
\* passed since the last dispatch
BatchDue ==
    /\ td_batch # <<>>
    /\ \/ Len(td_batch) >= options.td_max_batch_size
       \/ monotonic - td_last_dispatch_time
              >= options.td_update_interval * TicksPerSecond

\* C23: every TD event accepted into the pending batch is eventually
\* dispatched to the state machine: once the batch holds maxBatchSize events
\* or updateInterval has elapsed since the last dispatch, the pending batch
\* is dispatched as a unit.
C23_PendingEventuallyDispatched == BatchDue ~> (td_batch = <<>>)


-----------------------------------------------------------------------------
(* Reading who writes the hub's state *)

\* the fields of HubState, the berth state among them
HubStateFields ==
    <<connected, last_movement, last_movement_per_station, last_batch_count,
      last_error, last_seen_monotonic, last_td_message, td_message_count,
      td_batch, td_last_dispatch_time, td_message_rate_window, td_dropped_count,
      berths, event_history, event_history_size, platform_state,
      berth_to_platform>>

\* the step is the event loop running a callback it was handed
OnEventLoop ==
    /\ loop_calls # <<>>
    /\ loop_calls' = Tail(loop_calls)

\* C24: every mutation of shared hub state (connected flag, last_error, last
\* movement, rate and batch counters, berth and platform maps) is applied on
\* the event loop after a handoff; no field of HubState is written by the
\* connection worker thread or by the broker's receive callback.
C24_StateWrittenOnEventLoop ==
    [][HubStateFields' # HubStateFields => OnEventLoop]_vars


-----------------------------------------------------------------------------
(* Reading the connected flag *)

\* no handoff that writes the connected flag waits in the event loop's queue
NoConnectedHandoffQueued ==
    \A i \in 1..Len(loop_calls) : loop_calls[i].fn # "_update_connected"

\* the last that happened to the connection is a loss (heartbeat timeout or
\* disconnect signal) or an error of conn.connect, or no connection was made
\* yet: no on_connected came since
NotConnectedSince ==
    worker.conn \in {"none", "new", "closed"}

\* C25: after a heartbeat timeout, a disconnect signal or a connection error,
\* once every handoff already queued to the event loop has run,
\* state.connected is false, and it stays false until the next on_connected.
C25_ConnectedFlagCleared ==
    (NotConnectedSince /\ NoConnectedHandoffQueued) => ~connected

\* C25 witness: the connection was made and lost, the worker left the
\* polling loop for the backoff sleep, and the event loop has run both
\* handoffs, the last of them with False
C25_Witness ==
    /\ worker.pc = "sleeping"
    /\ worker.after = "ended"
    /\ worker.conn = "closed"
    /\ loop_calls = <<>>
    /\ ~connected
    /\ sent = <<[signal |-> DISPATCH_CONNECTED, args |-> <<FALSE>>]>>


-----------------------------------------------------------------------------
(* Reading the subscriptions of on_connected *)

\* the step is conn.connect returning with on_connected run
EntersConnected == worker.pc = "connecting" /\ worker'.pc = "connected"

\* the subscriptions the options ask for
ConfiguredSubscriptions(opts) ==
    {SUB_MOVEMENT}
        \cup (IF opts.enable_td THEN {SUB_TD} ELSE {})
        \cup (IF opts.enable_vstp THEN {SUB_VSTP} ELSE {})

\* the subscriptions attempted
AttemptedSubscriptions(attempts) == {attempts[i].id : i \in 1..Len(attempts)}

\* C26: on entering Connected the movement subscription is always attempted
\* and the TD and VSTP subscriptions are attempted exactly when their enable
\* options are set, independently of each other: a failure of one
\* subscription neither tears down the connection nor prevents the remaining
\* configured subscriptions from being attempted.
C26_SubscriptionsIndependent ==
    [][EntersConnected =>
          /\ AttemptedSubscriptions(worker'.subscriptions)
                 = ConfiguredSubscriptions(options)
          /\ worker'.conn = "connected"]_vars


\* the stop flag is set while the worker is in its reconnect backoff sleep
\* and the delay has not passed
StopDuringBackoff ==
    worker.pc = "sleeping" /\ worker.stop_evt /\ worker.slept # "all"

\* the step is time passing in the sleep
SleepsOn == worker'.pc = "sleeping" /\ worker'.slept # worker.slept

\* C27: if the stop flag is set while the worker is in a reconnect backoff
\* sleep, the worker observes it during the sleep and leaves the sleep
\* without waiting for the remaining delay to expire: once the flag is set,
\* no more of the delay passes with the worker in the sleep.
C27_StopEndsBackoffSleep ==
    [][StopDuringBackoff => ~SleepsOn]_vars


-----------------------------------------------------------------------------
(* Reading the order of the events applied *)

\* a is b with some of its elements left out
RECURSIVE IsSubsequence(_, _)
IsSubsequence(a, b) ==
    IF a = <<>> THEN TRUE
    ELSE IF b = <<>> THEN FALSE
    ELSE IF Head(a) = Head(b) THEN IsSubsequence(Tail(a), Tail(b))
    ELSE IsSubsequence(a, Tail(b))

\* a is the beginning of b
IsPrefix(a, b) == Len(a) <= Len(b) /\ SubSeq(b, 1, Len(a)) = a

\* the berth state after each event of the batch was applied whole, one
\* after the other
RECURSIVE ApplyInTurn(_, _)
ApplyInTurn(bs, batch) ==
    IF batch = <<>> THEN bs ELSE ApplyInTurn(update(bs, Head(batch)), Tail(batch))

\* C28: the sequence of TD events applied to the berth state is a
\* subsequence of the TD events delivered by the broker in the same relative
\* order, across batches as well as within a batch (the events applied are
\* the first of the events accepted, in their order, and the events accepted
\* are a subsequence of the events delivered), and each event's
\* clear-source/set-destination mutation is completed before the next event
\* of the batch is applied.
C28_AppliedInDeliveryOrder ==
    [][/\ IsPrefix(BerthEventsOf(calls'), AcceptedEvents(td_log'))
       /\ IsSubsequence(AcceptedEvents(td_log'), ReceivedEvents(received'))
       /\ IsSubsequence(BerthEventsOf(calls'), ReceivedEvents(received'))
       /\ RunsTdBatch => BS' = ApplyInTurn(BS, Head(loop_calls).batch)]_vars

\* C28 witness: a list of three events was delivered, then an interpose;
\* two batches were applied, and the events ran in the order of delivery
C28_Witness ==
    /\ Len(received) = 2
    /\ received[1].body = JList(<<EvStep, EvNoArea, EvCancel>>)
    /\ received[2].body = EvInterpose
    /\ loop_calls = <<>>
    /\ Len(BerthEventsOf(calls)) >= 3
    /\ BerthEventsOf(calls) = ReceivedEvents(received)
    /\ Len(SelectSeq(td_log, LAMBDA e : e.verdict = "dispatched")) = 2


-----------------------------------------------------------------------------
(* Reading the drops of the rate limiter *)

\* the events of the batches that wait in the event loop's queue
RECURSIVE QueuedEvents(_)
QueuedEvents(queue) ==
    IF queue = <<>> THEN <<>>
    ELSE (IF Head(queue).fn = "_update_td_batch" THEN Head(queue).batch ELSE <<>>)
             \o QueuedEvents(Tail(queue))

\* the batches handed to the event loop that wait in its queue
IsTdBatchCall(call) == call.fn = "_update_td_batch"
TdBatchCalls(queue) == SelectSeq(queue, IsTdBatchCall)

\* the frame was received and every event of it that reached the rate
\* limiter was dropped there
OnlyDrops ==
    /\ Receives
    /\ Len(td_log') > Len(td_log)
    /\ \A i \in (Len(td_log) + 1)..Len(td_log') : td_log'[i].verdict = "dropped"

\* the drops are in no batch: a drop left td_batch as it found it, a
\* dispatch comes only with an accepted event, and the events applied,
\* queued and pending are the accepted ones and no other
DropsAreNowhere ==
    /\ \A i \in Dropped : td_log[i].pending = PendingBefore(i)
    /\ \A i \in Dispatched : i > 1 /\ td_log[i - 1].verdict = "accepted"
    /\ BerthEventsOf(calls) \o QueuedEvents(loop_calls) \o td_batch
           = AcceptedEvents(td_log)
    /\ td_message_count = Len(BerthEventsOf(calls))

\* C29: a TD event rejected by the rate limiter changes nothing except the
\* drop counter (and the eviction of expired window timestamps): it is not
\* added to the rate window or the pending batch, causes no dispatch (no
\* batch is handed to the event loop), and never reaches the berth state or
\* td_message_count.
C29_DropChangesOnlyCounter ==
    [][/\ DropsAreNowhere'
       /\ OnlyDrops =>
             /\ td_dropped_count' = td_dropped_count + Len(td_log') - Len(td_log)
             /\ td_message_rate_window' = CleanWindow(td_message_rate_window, monotonic)
             /\ td_batch' = td_batch
             /\ td_last_dispatch_time' = td_last_dispatch_time
             /\ TdBatchCalls(loop_calls') = TdBatchCalls(loop_calls)
             /\ BS' = BS
             /\ td_message_count' = td_message_count
             /\ last_td_message' = last_td_message]_vars

\* C29 witness: under a limit of one event a second a step was accepted and,
\* in the same second, an interpose dropped; the window and the batch hold
\* the step alone, and nothing was dispatched or applied
C29_Witness ==
    /\ options.td_max_messages_per_second = 1
    /\ Len(received) = 2
    /\ received[1].body = EvStep
    /\ received[2].body = EvInterpose
    /\ received[2].at = received[1].at
    /\ td_dropped_count = 1
    /\ Len(td_message_rate_window) = 1
    /\ td_batch = <<parse_td_message(EvStep)>>
    /\ loop_calls = <<>>
    /\ td_message_count = 0
    /\ DOMAIN berths = {}


-----------------------------------------------------------------------------
(* Reading the return value of _handle_td_message *)

\* the items on_message hands to _handle_td_message: an object that was not
\* taken as a VSTP schedule, and the objects of a list whose first element
\* has a *_MSG key
HandedToTd(body) ==
    IF body = NonJson THEN {}
    ELSE IF IsDict(body) THEN (IF IsVstpSchedule(body) THEN {} ELSE {body})
    ELSE IF IsTdList(body) THEN {body.l[i] : i \in {j \in 1..Len(body.l) : IsDict(body.l[j])}}
    ELSE {}

\* the message has a key ending in _MSG with a recognised msg_type
IsValidTdMessage(message) ==
    \E i \in 1..Len(message.e) : TdEntryValid(message.e[i])

\* C30: _handle_td_message returns True if the message was handled as a TD
\* message (including filtered messages) and returns False for every message
\* that is not a valid TD message (no key ending in _MSG with a recognised
\* msg_type), for every area-filter configuration, so that the caller
\* attempts other interpretations for it.
C30_ReturnTellsTdMessage ==
    [][Receives =>
          \A message \in HandedToTd(ReceivedBody) :
              handle_td_message(LS, message, monotonic, options).handled
                  <=> IsValidTdMessage(message)]_vars


-----------------------------------------------------------------------------
(* Reading what the track section sensor is handed *)

\* the messages sent on the TD signal by the callback that ran, in order
IsTdSend(send) == send.signal = DISPATCH_TD
DeliveredToSection(sends) ==
    LET td == SelectSeq(sends, IsTdSend)
    IN  [k \in 1..Len(td) |-> td[k].args[1]]

\* the step, cancel and interpose events of a batch, in order
IsBerthEvent(m) == Get(m, "msg_type", None) \in {TD_MSG_CA, TD_MSG_CB, TD_MSG_CC}
BerthEventsIn(batch) == SelectSeq(batch, IsBerthEvent)

\* the sensor after it handled each event of the batch, one after the other
RECURSIVE SectionHandlesInTurn(_, _, _)
SectionHandlesInTurn(sec, batch, now) ==
    IF batch = <<>> THEN sec
    ELSE SectionHandlesInTurn(section_handle_td_message(sec, Head(batch), now),
                              Tail(batch), now)

\* C31: every step, cancel and interpose event applied to the berth state is
\* also delivered to the Track-Section Monitor, so after each dispatched
\* batch the monitor's tracked-train map equals the result of applying every
\* event of the batch in order.
C31_SectionSeesEveryEvent ==
    [][(RunsTdBatch /\ section # NoSection) =>
          /\ DeliveredToSection(sent') = BerthEventsIn(Head(loop_calls).batch)
          /\ section'.trains_in_section =
                 SectionHandlesInTurn(section, BerthEventsIn(Head(loop_calls).batch),
                                      monotonic).trains_in_section]_vars


-----------------------------------------------------------------------------
(* Reading the platform records *)

\* the berth-to-platform mapping was set by the first call, before any
\* event, and not again
MappingFixedFirst ==
    /\ calls # <<>>
    /\ calls[1].op = "set_berth_to_platform_mapping"
    /\ \A i \in 2..Len(calls) : calls[i].op # "set_berth_to_platform_mapping"

\* the platforms of the mapping, and the berths mapped to one of them
MappedPlatforms == {berth_to_platform[b] : b \in DOMAIN berth_to_platform}
BerthsOfPlatform(p) == {b \in DOMAIN berth_to_platform : berth_to_platform[b] = p}

\* the platform's record says active
PlatformActive(p) ==
    p \in DOMAIN platform_state /\ platform_state[p].status = "active"

\* C32: with a berth-to-platform mapping fixed before any event, in every
\* reachable state a platform's status is active if and only if at least one
\* berth mapped to that platform is currently occupied (a platform with no
\* record or status idle has no occupied mapped berth).
C32_PlatformActiveIffOccupied ==
    MappingFixedFirst =>
        \A p \in MappedPlatforms :
            PlatformActive(p) <=> (BerthsOfPlatform(p) \cap DOMAIN berths # {})


\* the berth-to-platform mapping in force when call i was made
MappingAt(i) ==
    LET sets == {j \in 1..(i - 1) : calls[j].op = "set_berth_to_platform_mapping"}
    IN  IF sets = {} THEN EmptyDict ELSE calls[Greatest(sets)].mapping

\* the platform of the berth an event leaves, and of the berth it fills,
\* under the mapping in force at call i; None when the event has no such
\* berth or the berth no platform
FromPlatformAt(i) ==
    IF IsUpdateOf(calls[i], {TD_MSG_CA, TD_MSG_CB})
    THEN Get(MappingAt(i), CancelKey(calls[i].msg), None) ELSE None
ToPlatformAt(i) ==
    IF IsUpdateOf(calls[i], {TD_MSG_CA, TD_MSG_CC})
    THEN Get(MappingAt(i), InterposeKey(calls[i].msg), None) ELSE None

\* the calls that touched platform p, and whether there is one
TouchesOf(p) == {i \in 1..Len(calls) : p \in {FromPlatformAt(i), ToPlatformAt(i)}}

-----------------------------------------------------------------------------
(* Reading the graph against the records held *)

\* the graph is the one _build_graph makes of the records held; a manager
\* that never built one holds no record and the empty dict
GraphIsOfRecords(sm) ==
    \/ get_graph(sm) = build_graph(sm.data).graph
    \/ sm.data = <<>> /\ get_graph(sm) = EmptyDict

\* the step is a refresh_data that reported failure
RefreshFailed ==
    /\ smart' # smart
    /\ smart'.last # NoneDict
    /\ smart'.last.op = "refresh_data"
    /\ smart'.adjacent = NoneDict
    /\ smart'.route = NoneDict
    /\ ~smart'.last.ok

\* C34: after any sequence of load_data and refresh_data calls, successful
\* or failed, the graph returned by get_graph() is the graph built from the
\* records the manager currently holds, and is_available() is true if and
\* only if that graph was built from at least one record; a failed refresh
\* changes neither.
C34_GraphIsOfRecordsHeld ==
    [][/\ GraphIsOfRecords(smart')
       /\ is_available(smart') <=> smart'.data # <<>>
       /\ RefreshFailed =>
             /\ get_graph(smart') = get_graph(smart)
             /\ is_available(smart') = is_available(smart)]_vars


\* the graph _build_graph makes of the records held, when it runs to its end
CompleteGraphOf(sm) ==
    LET built == build_graph(sm.data)
    IN  ~built.raised /\ get_graph(sm) = built.graph

\* C35: the topology graph is replaced atomically: a query through
\* get_graph() that runs during or between load/refresh operations observes
\* either the complete previous graph or the complete new graph, never an
\* empty or partially filled one: a step that changes the graph leaves the
\* complete graph of the new records.
C35_GraphReplacedWhole ==
    [][get_graph(smart') # get_graph(smart) => CompleteGraphOf(smart')]_vars


-----------------------------------------------------------------------------
(* Counting the events *)

\* the events received so far that passed parsing and the area filter
PassedEvents == PassingEvents(ReceivedEvents(received), options.td_areas)

\* C36: in every reachable state the TD events that passed parsing and the
\* area filter are accounted for exactly once: their number equals
\* td_dropped_count + the size of the pending batch + the events in batches
\* handed off but not yet applied + td_message_count.
C36_EventsAccountedOnce ==
    Len(PassedEvents) =
        td_dropped_count + Len(td_batch) + Len(QueuedEvents(loop_calls))
            + td_message_count

\* C36 witness: of four events that passed, two were applied, one was
\* dropped and one is pending
C36_Witness ==
    /\ Len(PassedEvents) = 4
    /\ td_message_count = 2
    /\ td_dropped_count = 1
    /\ Len(td_batch) = 1
    /\ QueuedEvents(loop_calls) = <<>>


-----------------------------------------------------------------------------
(* Reading the adjacency of the graph *)

\* the connections of the graph, none for a manager that never built one
ConnectionsOf(graph) == Get(graph, "berth_to_connections", EmptyDict)

\* how many entries of the list name the berth key
TimesIn(entries, key) ==
    Cardinality({i \in 1..Len(entries) :
                    SmartBerthKey(entries[i].td_area, entries[i].berth) = key})

\* the berth keys the lists of the graph name
NamedBerthKeys(graph) ==
    UNION {{SmartBerthKey(c[d][i].td_area, c[d][i].berth) : i \in 1..Len(c[d])} :
              c \in {ConnectionsOf(graph)[k] : k \in DOMAIN ConnectionsOf(graph)},
              d \in {"from", "to"}}

\* a field of a record as _build_graph reads it
SmartField(record, name) == Strip(Get(record.v, name, ""))

\* the records _build_graph got through: all of them, or those before the
\* first that is no object
RECURSIVE RecordsBuilt(_)
RecordsBuilt(data) ==
    IF data = <<>> \/ ~IsDict(Head(data)) THEN <<>>
    ELSE <<Head(data)>> \o RecordsBuilt(Tail(data))

\* how many of the records have a TD area, a from-berth and a to-berth and
\* lead from the one berth key to the other
StepsBetween(records, from_key, to_key) ==
    Cardinality({i \in 1..Len(records) :
        /\ SmartField(records[i], "TD") # ""
        /\ SmartField(records[i], "FROMBERTH") # ""
        /\ SmartField(records[i], "TOBERTH") # ""
        /\ SmartBerthKey(SmartField(records[i], "TD"),
                         SmartField(records[i], "FROMBERTH")) = from_key
        /\ SmartBerthKey(SmartField(records[i], "TD"),
                         SmartField(records[i], "TOBERTH")) = to_key})

\* C37: in every graph produced by _build_graph the adjacency is symmetric:
\* berth B appears in the 'to' list of berth A exactly as many times as A
\* appears in the 'from' list of B, and an edge is recorded only for records
\* that have a TD area, a from-berth and a to-berth (where the graph is that
\* of the records held, B is in the 'to' list of A once for each such record
\* from A to B).
C37_AdjacencySymmetric ==
    LET c == ConnectionsOf(get_graph(smart))
    IN  /\ NamedBerthKeys(get_graph(smart)) \subseteq DOMAIN c
        /\ \A a \in DOMAIN c, b \in DOMAIN c :
              /\ TimesIn(c[a].to, b) = TimesIn(c[b].from, a)
              /\ GraphIsOfRecords(smart) =>
                    TimesIn(c[a].to, b) = StepsBetween(RecordsBuilt(smart.data), a, b)

\* C37 witness: the graph of seven records, two of them without a to-berth:
\* berth 03 is entered from 02 and from 05, and each of these has 03 in its
\* 'to' list once
C37_Witness ==
    /\ Len(smart.data) = 7
    /\ GraphIsOfRecords(smart)
    /\ "SK:03" \in DOMAIN ConnectionsOf(get_graph(smart))
    /\ Len(ConnectionsOf(get_graph(smart))["SK:03"].from) = 2
    /\ TimesIn(ConnectionsOf(get_graph(smart))["SK:02"].to, "SK:03") = 1
    /\ TimesIn(ConnectionsOf(get_graph(smart))["SK:05"].to, "SK:03") = 1
    /\ Cardinality(DOMAIN ConnectionsOf(get_graph(smart))) = 5


-----------------------------------------------------------------------------
(* Reading the reconnect delay over one run of the worker *)

\* the values min(5 * 2^n, 60) can take
ReconnectDelays == {5, 10, 20, 40, 60}

\* a pass of the connection loop ends: time.sleep returned and the loop is
\* at its top again
PassEnds == worker.pc = "sleeping" /\ worker'.pc = "top"

\* C38: within one run of the worker the reconnect delay only takes values
\* in {5, 10, 20, 40, 60} and never decreases: it changes only at the end of
\* a pass of the connection loop, where it is doubled up to the cap, after a
\* connection that succeeded as after one that failed.
C38_DelayNeverDecreases ==
    /\ [](worker.reconnect_delay \in ReconnectDelays)
    /\ [][/\ worker'.reconnect_delay >= worker.reconnect_delay
          /\ worker'.reconnect_delay # worker.reconnect_delay => PassEnds
          /\ PassEnds =>
                /\ worker.after \in {"failed", "ended"}
                /\ worker'.reconnect_delay =
                      Min(2 * worker.reconnect_delay, RECONNECT_DELAY_CAP)]_vars

\* C38 witness: the loop is at its top after two passes, the second one a
\* connection that succeeded and was lost, and the delay is 20 s
C38_Witness ==
    /\ worker.pc = "top"
    /\ worker.conn = "closed"
    /\ worker.subscriptions # <<>>
    /\ worker.waits = 2
    /\ worker.reconnect_delay = 20


-----------------------------------------------------------------------------
(* Reading the records of the trains a track section tracks *)

\* the record of a tracked train is well formed: berths_visited is not
\* empty, it ends with current_berth, and current_berth is a monitored berth
TrainRecordWellFormed(sec, train_data) ==
    /\ train_data.berths_visited # <<>>
    /\ train_data.berths_visited[Len(train_data.berths_visited)]
          = train_data.current_berth
    /\ train_data.current_berth \in sec.section_berths

\* C39: in every reachable state of the track section sensor, each tracked
\* train has a non-empty berths_visited whose last element equals its
\* current_berth, and its current_berth is one of the monitored berths.
C39_TrackedTrainsWellFormed ==
    section # NoSection =>
        \A h \in DOMAIN section.trains_in_section :
            /\ section.trains_in_section[h].headcode = h
            /\ TrainRecordWellFormed(section, section.trains_in_section[h])

\* C39 witness: two trains are tracked, one of them followed from berth 102
\* to 103 and back to 102
C39_Witness ==
    /\ section # NoSection
    /\ DOMAIN section.trains_in_section = {"1A23", "2J01"}
    /\ section.trains_in_section["1A23"].berths_visited
          = <<"SK:102", "SK:103", "SK:102">>
    /\ section.trains_in_section["2J01"].current_berth = "SK:103"


-----------------------------------------------------------------------------
(* Reading the queries and the berth state without reference data *)

\* the graph holds no topology: it is the {} of the constructor, or each of
\* its maps is empty
GraphIsEmpty(graph) ==
    \A name \in {"berth_to_connections", "stanox_to_berths", "berth_to_stanox"} :
        Get(graph, name, EmptyDict) = EmptyDict

\* every query answered with an empty result (for get_adjacent_berths: no
\* connection in either direction)
AnswersEmpty(answers) ==
    /\ answers.adjacent_berths = NoConnections
    /\ answers.berths_for_stanox = <<>>
    /\ answers.adjacent_stations = EmptyDict
    /\ answers.berth_route = <<>>
    /\ answers.platform_mapping = EmptyDict

\* no event of the history carries a platform field
NoPlatformFields ==
    \A i \in 1..Len(event_history) :
        DOMAIN event_history[i] \cap {"from_platform", "to_platform", "platform"} = {}

\* the berth operations among the updates made so far
BerthOperationCalls ==
    SelectSeq(calls, LAMBDA c : c.op = "update"
                                  /\ IsBerthOperation(Get(c.msg, "msg_type", None)))

\* the sensors were set up, if they were, on an empty graph
SetUpOnEmptyGraph ==
    \A i \in 1..Len(calls) :
        calls[i].op = "async_setup_entry" => GraphIsEmpty(calls[i].graph)

\* C40: with an empty graph every topology query (get_adjacent_berths,
\* get_berths_for_stanox, find_adjacent_stations_multihop, get_berth_route,
\* get_berth_to_platform_mapping) gives an empty result, and sensors set up
\* on an empty graph leave the platform mapping empty; with an empty
\* mapping the berth state goes on following the events: each berth
\* operation is entered in the history, no platform record is made and no
\* event carries a platform field.
C40_EmptyGraphDegrades ==
    /\ (smart.answers # NoneDict /\ GraphIsEmpty(get_graph(smart)))
          => AnswersEmpty(smart.answers)
    /\ SetUpOnEmptyGraph => berth_to_platform = EmptyDict
    /\ berth_to_platform = EmptyDict =>
          /\ platform_state = EmptyDict
          /\ NoPlatformFields
          /\ Len(event_history)
                = Min(Len(BerthOperationCalls), event_history_size)

\* C40 witness: the reference data are held (one record, every field blank)
\* and the graph is empty; the sensors were set up on it, a train stepped
\* into berth 102, and the queries were answered
C40_Witness ==
    /\ is_available(smart)
    /\ GraphIsEmpty(get_graph(smart))
    /\ smart.answers # NoneDict
    /\ Len(calls) = 2
    /\ calls[1].op = "async_setup_entry"
    /\ calls[1].available
    /\ "SK:102" \in DOMAIN berths
    /\ Len(event_history) = 1

=============================================================================
